---- MODULE Spec2Model ----
(***************************************************************************)
(* Telemetry analytics and classification engine of error-autopsy          *)
(* (src/src/analysis/metrics.py, src/config/settings.py).                  *)
(*                                                                         *)
(* The engine is a library of functions over in-memory lists of records.   *)
(* The state is the wall clock the functions read (datetime.now(),         *)
(* date.today()), the call in hand (function, arguments, the clock value   *)
(* it read) and the value it returned.  The engine keeps nothing between   *)
(* calls: a call starts from the idle state and Return leads back to it.   *)
(* The table study_sessions is the stored state of the write path          *)
(* (src/src/services/db_service.py); the engine does not touch it.         *)
(*                                                                         *)
(* Encoding of Python values                                               *)
(*   None          [t |-> "none", v |-> <<>>]                              *)
(*   str           [t |-> "str",  v |-> tokens], tokens a sequence; the    *)
(*                 token " " is whitespace, <<>> is the empty string; a    *)
(*                 date text "DD-MM-YYYY" is the token sequence <<D,M,Y>>  *)
(*   int (opaque)  [t |-> "int",  v |-> <<n>>]                             *)
(*   dict          a TLA+ function / record; a key that is absent from the *)
(*                 dict is absent from the DOMAIN                          *)
(*   list          a sequence                                              *)
(*   numbers used in arithmetic are integers; paces and benchmarks are in  *)
(*   hundredths of a minute per question.                                  *)
(***************************************************************************)
EXTENDS Integers, Sequences, FiniteSets, TLC

VARIABLES now, call, ret, study_sessions

vars == <<now, call, ret, study_sessions>>

----------------------------------------------------------------------------
(* Python values *)

None == [t |-> "none", v |-> <<>>]

Str(s) == [t |-> "str", v |-> s]

IntV(n) == [t |-> "int", v |-> <<n>>]

IsStr(x) == x.t = "str"

\* bool(x): None, "" and 0 are falsy
Truthy(x) == IF x.t = "none" THEN FALSE ELSE IF x.t = "str" THEN x.v # <<>> ELSE x.v[1] # 0

\* dict.get(key, default)
Get(d, key, default) == IF key \in DOMAIN d THEN d[key] ELSE default

\* x or default
OrElse(x, default) == IF Truthy(x) THEN x ELSE default

RECURSIVE LStrip(_)
LStrip(s) == IF s # <<>> /\ Head(s) = " " THEN LStrip(Tail(s)) ELSE s

RECURSIVE RStrip(_)
RStrip(s) == IF s # <<>> /\ s[Len(s)] = " " THEN RStrip(SubSeq(s, 1, Len(s) - 1)) ELSE s

\* str.strip()
Strip(x) == Str(RStrip(LStrip(x.v)))

\* all sequences over S of length 0..n
SeqsUpTo(S, n) == UNION {[1..k -> S] : k \in 0..n}

RECURSIVE SumSeq(_)
SumSeq(s) == IF s = <<>> THEN 0 ELSE Head(s) + SumSeq(Tail(s))

----------------------------------------------------------------------------
(* Calendar: datetime.date / datetime.datetime of the standard library, as *)
(* the engine uses them.  A date is its proleptic Gregorian ordinal; a     *)
(* datetime is [day |-> ordinal, tod |-> 0 for midnight, 1 for any later   *)
(* instant of that day].                                                   *)

IsLeap(y) == y % 4 = 0 /\ (y % 100 # 0 \/ y % 400 = 0)

DaysInMonth(y, m) ==
    IF m = 2 THEN (IF IsLeap(y) THEN 29 ELSE 28)
    ELSE IF m \in {4, 6, 9, 11} THEN 30 ELSE 31

DaysBeforeYear(y) == 365 * (y - 1) + ((y - 1) \div 4) - ((y - 1) \div 100) + ((y - 1) \div 400)

\* days of a common year before the first of each month
DAYS_BEFORE_MONTH == <<0, 31, 59, 90, 120, 151, 181, 212, 243, 273, 304, 334>>

DaysBeforeMonth(y, m) == DAYS_BEFORE_MONTH[m] + (IF m > 2 /\ IsLeap(y) THEN 1 ELSE 0)

ToOrdinal(y, m, d) == DaysBeforeYear(y) + DaysBeforeMonth(y, m) + d

\* date.fromordinal(n) as <<year, month, day>>
FromOrdinal(n) ==
    LET y0 == ((n * 400) \div 146097) + 1
        y == CHOOSE k \in {y0 - 1, y0, y0 + 1} : DaysBeforeYear(k) < n /\ n <= DaysBeforeYear(k + 1)
        r == n - DaysBeforeYear(y)
        m == CHOOSE k \in 1..12 : DaysBeforeMonth(y, k) < r /\ r <= DaysBeforeMonth(y, k) + DaysInMonth(y, k)
    IN  <<y, m, r - DaysBeforeMonth(y, m)>>

\* datetime.strptime(text, "%d-%m-%Y") succeeds
ValidDateText(x) ==
    /\ x.t = "str"
    /\ Len(x.v) = 3
    /\ x.v[3] \in 1..9999
    /\ x.v[2] \in 1..12
    /\ x.v[1] \in 1..DaysInMonth(x.v[3], x.v[2])

\* parse_date_str: the datetime (midnight of the day), or None
parse_date_str(x) ==
    IF ValidDateText(x) THEN [day |-> ToOrdinal(x.v[3], x.v[2], x.v[1]), tod |-> 0] ELSE None

\* strftime("%d-%m-%Y") of a date
FormatDisplay(n) == LET t == FromOrdinal(n) IN Str(<<t[3], t[2], t[1]>>)

\* strftime("%Y-%m-%d") of a date: the key <<year, month, day>>; the order of
\* the zero-padded strings is the lexicographic order of the keys
FormatIso(n) == FromOrdinal(n)

\* dt1 >= dt2 on datetimes
DtGeq(a, b) == a.day > b.day \/ (a.day = b.day /\ a.tod >= b.tod)

----------------------------------------------------------------------------
(* Clock.  The engine reads the wall clock in filter_data_by_range         *)
(* (datetime.now()) and in get_activity_heatmap_data (date.today()).       *)

NEW_YEAR == ToOrdinal(2024, 1, 1)

\* the instants the clock passes through, in order
ClockValues ==
    << [day |-> NEW_YEAR - 1, tod |-> 1],
       [day |-> NEW_YEAR, tod |-> 0],
       [day |-> NEW_YEAR, tod |-> 1] >>

ClockIndex(c) == CHOOSE i \in 1..Len(ClockValues) : ClockValues[i] = c

NoCall == [fn |-> "none"]

Init ==
    /\ now = ClockValues[1]
    /\ call = NoCall
    /\ ret = None
    /\ study_sessions = <<>>

Idle == call.fn = "none"

\* the caller drops the result; the engine keeps nothing between calls
Return ==
    /\ ~Idle
    /\ call' = NoCall
    /\ ret' = None
    /\ UNCHANGED <<now, study_sessions>>

\* time passes between calls
Tick ==
    /\ Idle
    /\ ClockIndex(now) < Len(ClockValues)
    /\ now' = ClockValues[ClockIndex(now) + 1]
    /\ UNCHANGED <<call, ret, study_sessions>>

----------------------------------------------------------------------------
(* Configuration: src/config/settings.py *)

\* EXAM_PACE_BENCHMARKS, in hundredths of a minute per question
EXAM_PACE_BENCHMARKS ==
    [FUVEST |-> 300, ENEM |-> 300, UNICAMP |-> 350, ITA_IME |-> 400, SAT |-> 125, General |-> 250]

\* exam type texts are single tokens; "ITA/IME" is the token "ITA_IME"
get_pace_benchmark(exam_type) ==
    IF IsStr(exam_type) /\ Len(exam_type.v) = 1 /\ exam_type.v[1] \in DOMAIN EXAM_PACE_BENCHMARKS
    THEN EXAM_PACE_BENCHMARKS[exam_type.v[1]]
    ELSE EXAM_PACE_BENCHMARKS["General"]

\* AccuracyZone thresholds, in percent
MASTERY_THRESHOLD == 80

DEVELOPING_THRESHOLD == 60

\* PaceZone multipliers 0.5 and 1.2, in tenths
RUSHING_MULTIPLIER_X10 == 5

OPTIMAL_MAX_MULTIPLIER_X10 == 12

\* PaceZone.classify with the upper boundary exclusive
PaceZone_classify_exclusive(pace, benchmark) ==
    IF pace * 10 < benchmark * RUSHING_MULTIPLIER_X10 THEN "Rushing"
    ELSE IF pace * 10 < benchmark * OPTIMAL_MAX_MULTIPLIER_X10 THEN "Optimal"
    ELSE "Too Slow"

\* PaceZone.classify written on the ratio pace / benchmark, which is undefined
\* at benchmark = 0 and turns the comparisons round below it
PaceZone_classify_ratio(pace, benchmark) ==
    IF benchmark = 0 THEN "ZeroDivisionError"
    ELSE IF benchmark > 0 THEN
        (IF pace * 10 < benchmark * RUSHING_MULTIPLIER_X10 THEN "Rushing"
         ELSE IF pace * 10 <= benchmark * OPTIMAL_MAX_MULTIPLIER_X10 THEN "Optimal"
         ELSE "Too Slow")
    ELSE
        (IF pace * 10 > benchmark * RUSHING_MULTIPLIER_X10 THEN "Rushing"
         ELSE IF pace * 10 >= benchmark * OPTIMAL_MAX_MULTIPLIER_X10 THEN "Optimal"
         ELSE "Too Slow")

\* PaceZone.classify: pace < benchmark * 0.5, pace <= benchmark * 1.2
PaceZone_classify(pace, benchmark) ==
    IF pace * 10 < benchmark * RUSHING_MULTIPLIER_X10 THEN "Rushing"
    ELSE IF pace * 10 <= benchmark * OPTIMAL_MAX_MULTIPLIER_X10 THEN "Optimal"
    ELSE "Too Slow"

----------------------------------------------------------------------------
(* Study session metrics: analyze_session_performance *)

\* accuracy zone with Developing starting above the threshold
AccuracyZoneOf_strict(accuracy) ==
    IF accuracy > MASTERY_THRESHOLD THEN "Mastery"
    ELSE IF accuracy > DEVELOPING_THRESHOLD THEN "Developing"
    ELSE "Struggling"

\* metrics.py 367-372
AccuracyZoneOf(accuracy) ==
    IF accuracy >= MASTERY_THRESHOLD THEN "Mastery"
    ELSE IF accuracy >= DEVELOPING_THRESHOLD THEN "Developing"
    ELSE "Struggling"

\* the combined zone with every Rushing session below mastery called struggling
PerformanceZoneOf_merged(pace_zone, accuracy) ==
    IF pace_zone = "Rushing" /\ accuracy < MASTERY_THRESHOLD THEN "Rushing & Struggling"
    ELSE IF pace_zone = "Rushing" THEN "Rushing & Accurate (Risky)"
    ELSE IF pace_zone = "Optimal" /\ accuracy >= MASTERY_THRESHOLD THEN "Mastery Zone"
    ELSE IF pace_zone = "Too Slow" /\ accuracy >= MASTERY_THRESHOLD THEN "Slow but Accurate"
    ELSE "Needs Improvement"

\* metrics.py 375-386
PerformanceZoneOf(pace_zone, accuracy) ==
    IF pace_zone = "Rushing" /\ accuracy < DEVELOPING_THRESHOLD THEN "Rushing & Struggling"
    ELSE IF pace_zone = "Rushing" /\ accuracy >= MASTERY_THRESHOLD THEN "Rushing & Accurate (Risky)"
    ELSE IF pace_zone = "Optimal" /\ accuracy >= MASTERY_THRESHOLD THEN "Mastery Zone"
    ELSE IF pace_zone = "Too Slow" /\ accuracy >= MASTERY_THRESHOLD THEN "Slow but Accurate"
    ELSE "Needs Improvement"

\* dict(d) with d[key] = value
With(d, key, value) == [k \in DOMAIN d \cup {key} |-> IF k = key THEN value ELSE d[k]]

\* the body of the loop: the copy of one session with its classifications
AnalyzeSession(session) ==
    LET pace == Get(session, "pace_per_question", 0)
        accuracy == Get(session, "accuracy_percentage", 0)
        exam_type == Get(session, "exam_type", Str(<<"General">>))
        benchmark == get_pace_benchmark(exam_type)
        pace_zone == PaceZone_classify(pace, benchmark)
        s1 == With(session, "pace_zone", pace_zone)
        s2 == With(s1, "pace_benchmark", benchmark)
        s3 == With(s2, "accuracy_zone", AccuracyZoneOf(accuracy))
    IN  With(s3, "performance_zone", PerformanceZoneOf(pace_zone, accuracy))

analyze_session_performance(sessions) ==
    [i \in 1..Len(sessions) |-> AnalyzeSession(sessions[i])]

----------------------------------------------------------------------------
(* Inputs of the classification calls *)

MaxPace == 13

MaxBenchmark == 10

MaxAnalyzed == 1

\* paces (hundredths of a minute per question) on both sides of every zone
\* boundary of the benchmarks 125, 250 and 300
ZonePaces == {0, 62, 63, 124, 125, 149, 150, 151, 300, 301, 360, 361}

ZoneAccuracies == {59, 60, 79, 80}

ZoneExamTypes == {Str(<<"ENEM">>), Str(<<"SAT">>), Str(<<"Vestibular">>)}

ZoneSessions ==
    {[pace_per_question |-> p, accuracy_percentage |-> a, exam_type |-> e] :
        p \in ZonePaces, a \in ZoneAccuracies, e \in ZoneExamTypes}
    \cup {[pace_per_question |-> p, accuracy_percentage |-> a] : p \in ZonePaces, a \in ZoneAccuracies}
    \cup {[exam_type |-> e] : e \in ZoneExamTypes}

CallClassify ==
    /\ Idle
    /\ \E pace \in (0 - MaxPace)..MaxPace, benchmark \in (0 - MaxBenchmark)..MaxBenchmark :
        /\ call' = [fn |-> "PaceZone.classify", pace |-> pace, benchmark |-> benchmark]
         /\ ret' = PaceZone_classify(pace, benchmark)
         /\ UNCHANGED <<now, study_sessions>>

CallAnalyze ==
    /\ Idle
    /\ \E sessions \in SeqsUpTo(ZoneSessions, MaxAnalyzed) :
         /\ call' = [fn |-> "analyze_session_performance", sessions |-> sessions]
         /\ ret' = analyze_session_performance(sessions)
         /\ UNCHANGED <<now, study_sessions>>

NextZone == CallClassify \/ CallAnalyze \/ Return

SpecZone == Init /\ [][NextZone]_vars

----------------------------------------------------------------------------
(* Entry counters: count_error_types, count_subjects, count_topics,        *)
(* count_difficulties                                                      *)

EmptyDict == <<>>

\* counts[key] = counts.get(key, 0) + 1 for each key in turn
RECURSIVE Tally(_)
Tally(keys) ==
    IF keys = <<>> THEN EmptyDict
    ELSE LET counts == Tally(SubSeq(keys, 1, Len(keys) - 1))
             key == keys[Len(keys)]
         IN  With(counts, key, Get(counts, key, 0) + 1)

\* strip-or-default of count_subjects and count_topics
NormalizedText(raw) ==
    LET text == IF IsStr(raw) THEN Strip(raw) ELSE Str(<<"Unknown">>)
    IN  IF ~Truthy(text) THEN Str(<<"Unknown">>) ELSE text

count_error_types(data) ==
    Tally([i \in 1..Len(data) |-> Get(data[i], "type", Str(<<"Unknown">>))])

\* count_subjects leaving out the records whose subject is an empty or blank text
count_subjects_skip_blank(data) ==
    LET raw(r) == Get(r, "subject", Str(<<"Unknown">>))
        kept == SelectSeq(data, LAMBDA r : ~(IsStr(raw(r)) /\ ~Truthy(Strip(raw(r)))))
    IN  Tally([i \in 1..Len(kept) |-> NormalizedText(raw(kept[i]))])

count_subjects(data) ==
    Tally([i \in 1..Len(data) |-> NormalizedText(Get(data[i], "subject", Str(<<"Unknown">>)))])

count_topics(data) ==
    Tally([i \in 1..Len(data) |-> NormalizedText(Get(data[i], "topic", Str(<<"Unknown">>)))])

count_difficulties(data) ==
    Tally([i \in 1..Len(data) |-> OrElse(Get(data[i], "difficulty", Str(<<"Medium">>)), Str(<<"Medium">>))])

\* aggregate_by_topic: row.get("topic", "Unknown") or "Unknown"
aggregate_by_topic(data) ==
    Tally([i \in 1..Len(data) |-> OrElse(Get(data[i], "topic", Str(<<"Unknown">>)), Str(<<"Unknown">>))])

\* aggregate_by_subject: row.get("subject", "Unknown") or "Unknown"
aggregate_by_subject(data) ==
    Tally([i \in 1..Len(data) |-> OrElse(Get(data[i], "subject", Str(<<"Unknown">>)), Str(<<"Unknown">>))])

----------------------------------------------------------------------------
(* Range filter: filter_data_by_range *)

DAYS_PER_MONTH == 30

\* now.replace(day=1, hour=0, minute=0, second=0, microsecond=0)
FirstOfMonth(dt) == [day |-> dt.day - (FromOrdinal(dt.day)[3] - 1), tod |-> 0]

\* the cutoff with the rolling window starting at midnight
Cutoff_midnight(months, clock) ==
    IF months.v[1] = 0 THEN FirstOfMonth(clock)
    ELSE [day |-> clock.day - months.v[1] * DAYS_PER_MONTH, tod |-> 0]

\* the cutoff with months = 0 taken as a window of no days
Cutoff_rolling(months, clock) ==
    [day |-> clock.day - months.v[1] * DAYS_PER_MONTH, tod |-> clock.tod]

\* the cutoff for months = 0 and months = N, an int value
Cutoff(months, clock) ==
    IF months.v[1] = 0 THEN FirstOfMonth(clock)
    ELSE [day |-> clock.day - months.v[1] * DAYS_PER_MONTH, tod |-> clock.tod]

\* the test with a date that does not parse let through
InRange_unparsed(item, cutoff) ==
    LET raw_date == Get(item, "date", None)
    IN  /\ Truthy(raw_date)
        /\ ValidDateText(raw_date) => DtGeq(parse_date_str(raw_date), cutoff)

\* the test of the loop body: the item is appended
InRange(item, cutoff) ==
    LET raw_date == Get(item, "date", None)
    IN  /\ Truthy(raw_date)
        /\ ValidDateText(raw_date)
        /\ DtGeq(parse_date_str(raw_date), cutoff)

\* filter_data_by_range that hands back the kept items with the date rewritten
\* in the ISO form of the storage layer
filter_data_by_range_iso(data, months, clock) ==
    IF data = <<>> THEN <<>>
    ELSE IF months = None THEN data
    ELSE LET kept == SelectSeq(data, LAMBDA item : InRange(item, Cutoff(months, clock)))
         IN  [i \in 1..Len(kept) |->
                 With(kept[i], "date", Str(FormatIso(parse_date_str(kept[i].date).day)))]

\* clock is the value datetime.now() returns during the call
filter_data_by_range(data, months, clock) ==
    IF data = <<>> THEN <<>>
    ELSE IF months = None THEN data
    ELSE SelectSeq(data, LAMBDA item : InRange(item, Cutoff(months, clock)))

----------------------------------------------------------------------------
(* Cross-entity linking: get_mock_exam_error_summary *)

\* the error put at the head of the group of its subject
AppendTo_front(grouped, error) ==
    LET subject == Get(error, "subject", Str(<<"Unknown">>))
    IN  With(grouped, subject, <<error>> \o Get(grouped, subject, <<>>))

\* grouped[subject].append(error)
AppendTo(grouped, error) ==
    LET subject == Get(error, "subject", Str(<<"Unknown">>))
    IN  With(grouped, subject, Append(Get(grouped, subject, <<>>), error))

\* the primary match of the loop body
LinkedTo(error, mock_exam_id) == Get(error, "mock_exam_id", None) = mock_exam_id

\* the fallback match of the loop body
SameDayUnlinked(error, exam_date) ==
    /\ ~Truthy(Get(error, "mock_exam_id", None))
    /\ Truthy(exam_date)
    /\ Get(error, "date", None) = exam_date

\* the fallback match without the test that the error has no link
SameDay(error, exam_date) ==
    /\ Truthy(exam_date)
    /\ Get(error, "date", None) = exam_date

RECURSIVE get_mock_exam_error_summary_same_day(_, _, _)
get_mock_exam_error_summary_same_day(errors, mock_exam_id, exam_date) ==
    IF errors = <<>> THEN EmptyDict
    ELSE LET grouped == get_mock_exam_error_summary_same_day(
                            SubSeq(errors, 1, Len(errors) - 1), mock_exam_id, exam_date)
             error == errors[Len(errors)]
         IN  IF LinkedTo(error, mock_exam_id) THEN AppendTo(grouped, error)
             ELSE IF SameDay(error, exam_date) THEN AppendTo(grouped, error)
             ELSE grouped

RECURSIVE get_mock_exam_error_summary(_, _, _)
get_mock_exam_error_summary(errors, mock_exam_id, exam_date) ==
    IF errors = <<>> THEN EmptyDict
    ELSE LET grouped == get_mock_exam_error_summary(
                            SubSeq(errors, 1, Len(errors) - 1), mock_exam_id, exam_date)
             error == errors[Len(errors)]
         IN  IF LinkedTo(error, mock_exam_id) THEN AppendTo(grouped, error)
             ELSE IF SameDayUnlinked(error, exam_date) THEN AppendTo(grouped, error)
             ELSE grouped

----------------------------------------------------------------------------
(* Inputs of the calls on error records *)

MaxCounted == 3

MaxFiltered == 2

MaxMonths == 2

MaxLinked == 2

\* a counted field: None, empty, blank, padded and plain texts, non-str values
FieldValues ==
    {None, Str(<<>>), Str(<<" ">>), Str(<<"Algebra">>), Str(<<" ", "Algebra", " ">>),
     Str(<<"Optics">>), IntV(0), IntV(7)}

\* records that carry the field, and the record without it
RecordsWith(field) == {[k \in {field} |-> value] : value \in FieldValues} \cup {EmptyDict}

DateText(d, m, y) == Str(<<d, m, y>>)

\* date fields: days around the cutoffs of the clock values, a day that is not
\* in the calendar, an ISO text, an empty text, a text that is no date, None
DateValues ==
    {DateText(1, 1, 2024), DateText(31, 12, 2023), DateText(2, 12, 2023), DateText(1, 12, 2023),
     DateText(30, 11, 2023), DateText(31, 11, 2023), Str(<<2023, 12, 31>>), Str(<<>>),
     Str(<<"yesterday">>), None}

DatedRecords == {[date |-> value] : value \in DateValues} \cup {EmptyDict}

MonthsValues == {None} \cup {IntV(n) : n \in 0..MaxMonths}

ExamIds == {Str(<<"exam-A">>), Str(<<"exam-B">>)}

\* links: absent, null, the two exams, and an id of no exam
LinkValues == {None} \cup ExamIds \cup {Str(<<"exam-gone">>)}

ExamDates == {DateText(1, 1, 2024), DateText(31, 12, 2023)}

LinkedErrors ==
    {[subject |-> Str(<<"Algebra">>), date |-> d, mock_exam_id |-> l] : d \in ExamDates, l \in LinkValues}
    \cup {[date |-> d, mock_exam_id |-> l] : d \in ExamDates, l \in LinkValues}
    \cup {[subject |-> Str(<<"Optics">>), date |-> d] : d \in ExamDates}

CallCountErrorTypes ==
    /\ Idle
    /\ \E data \in SeqsUpTo(RecordsWith("type"), MaxCounted) :
         /\ call' = [fn |-> "count_error_types", data |-> data]
         /\ ret' = count_error_types(data)
         /\ UNCHANGED <<now, study_sessions>>

CallCountSubjects ==
    /\ Idle
    /\ \E data \in SeqsUpTo(RecordsWith("subject"), MaxCounted) :
         /\ call' = [fn |-> "count_subjects", data |-> data]
         /\ ret' = count_subjects(data)
         /\ UNCHANGED <<now, study_sessions>>

CallCountTopics ==
    /\ Idle
    /\ \E data \in SeqsUpTo(RecordsWith("topic"), MaxCounted) :
         /\ call' = [fn |-> "count_topics", data |-> data]
         /\ ret' = count_topics(data)
         /\ UNCHANGED <<now, study_sessions>>

CallCountDifficulties ==
    /\ Idle
    /\ \E data \in SeqsUpTo(RecordsWith("difficulty"), MaxCounted) :
         /\ call' = [fn |-> "count_difficulties", data |-> data]
         /\ ret' = count_difficulties(data)
         /\ UNCHANGED <<now, study_sessions>>

CallAggregateByTopic ==
    /\ Idle
    /\ \E data \in SeqsUpTo(RecordsWith("topic"), MaxCounted) :
         /\ call' = [fn |-> "aggregate_by_topic", data |-> data]
         /\ ret' = aggregate_by_topic(data)
         /\ UNCHANGED <<now, study_sessions>>

CallAggregateBySubject ==
    /\ Idle
    /\ \E data \in SeqsUpTo(RecordsWith("subject"), MaxCounted) :
         /\ call' = [fn |-> "aggregate_by_subject", data |-> data]
         /\ ret' = aggregate_by_subject(data)
         /\ UNCHANGED <<now, study_sessions>>

CallFilter ==
    /\ Idle
    /\ \E data \in SeqsUpTo(DatedRecords, MaxFiltered), months \in MonthsValues :
         /\ call' = [fn |-> "filter_data_by_range", data |-> data, months |-> months, at |-> now]
         /\ ret' = filter_data_by_range(data, months, now)
         /\ UNCHANGED <<now, study_sessions>>

CallErrorSummary ==
    /\ Idle
    /\ \E errors \in SeqsUpTo(LinkedErrors, MaxLinked), mock_exam_id \in ExamIds,
          exam_date \in ExamDates \cup {None} :
         /\ call' = [fn |-> "get_mock_exam_error_summary", errors |-> errors,
                     mock_exam_id |-> mock_exam_id, exam_date |-> exam_date]
         /\ ret' = get_mock_exam_error_summary(errors, mock_exam_id, exam_date)
         /\ UNCHANGED <<now, study_sessions>>

NextErr ==
    \/ CallCountErrorTypes
    \/ CallCountSubjects
    \/ CallCountTopics
    \/ CallCountDifficulties
    \/ CallAggregateByTopic
    \/ CallAggregateBySubject
    \/ CallFilter
    \/ CallErrorSummary
    \/ Return
    \/ Tick

SpecErr == Init /\ [][NextErr]_vars

----------------------------------------------------------------------------
(* Error records: claims C1, C2, C3 *)

Summarized == call.fn = "get_mock_exam_error_summary"

InSummary(grouped, error) == \E k \in DOMAIN grouped : \E i \in 1..Len(grouped[k]) : grouped[k][i] = error

\* C1: an error whose mock_exam_id is non-null and is not the exam asked for
\* (another exam, or an id of no exam) appears in no group of the summary,
\* even when its date is the exam's date.
C1_NoForeignLinkInSummary ==
    Summarized =>
        \A k \in DOMAIN ret : \A i \in 1..Len(ret[k]) :
            LET link == Get(ret[k][i], "mock_exam_id", None)
            IN  link # None => link = call.mock_exam_id

\* the summary of one exam was asked on its date, among errors of that date one
\* linked to another exam, one with a dangling link and one without a link; only
\* the last is in the summary
C1_Witness ==
    /\ Summarized
    /\ Truthy(call.exam_date)
    /\ \E i, j \in 1..Len(call.errors) :
        /\ call.errors[i].date = call.exam_date
        /\ Get(call.errors[i], "mock_exam_id", None) \in ExamIds \ {call.mock_exam_id}
        /\ ~InSummary(ret, call.errors[i])
        /\ call.errors[j].date = call.exam_date
        /\ "mock_exam_id" \notin DOMAIN call.errors[j]
        /\ InSummary(ret, call.errors[j])

\* a dangling link on the exam's date is left out
C1_WitnessDangling ==
    /\ Summarized
    /\ \E i \in 1..Len(call.errors) :
        /\ call.errors[i].date = call.exam_date
        /\ Get(call.errors[i], "mock_exam_id", None) = Str(<<"exam-gone">>)
        /\ ~InSummary(ret, call.errors[i])

\* the error is linked to the exam asked for, or has no link and carries the
\* date given for the exam
Matching(error) ==
    \/ ("mock_exam_id" \in DOMAIN error /\ error.mock_exam_id = call.mock_exam_id)
    \/ /\ ("mock_exam_id" \notin DOMAIN error \/ error.mock_exam_id = None)
       /\ call.exam_date # None
       /\ "date" \in DOMAIN error
       /\ error.date = call.exam_date

SubjectOf(error) == IF "subject" \in DOMAIN error THEN error.subject ELSE Str(<<"Unknown">>)

\* C29: the summary holds exactly the matching errors: each group is the
\* matching errors of its subject in input order, there is a group for every
\* subject of a matching error and no other, and the sizes of the groups sum
\* to the number of matching errors.
C29_ExactlyTheMatching ==
    Summarized =>
        LET matched == SelectSeq(call.errors, Matching)
        IN  /\ DOMAIN ret = {SubjectOf(matched[i]) : i \in 1..Len(matched)}
            /\ \A k \in DOMAIN ret :
                   ret[k] = SelectSeq(matched, LAMBDA error : SubjectOf(error) = k)
            /\ SumSeq([i \in 1..Len(matched) |->
                          IF \A j \in 1..(i - 1) : SubjectOf(matched[j]) # SubjectOf(matched[i])
                          THEN Len(ret[SubjectOf(matched[i])]) ELSE 0]) = Len(matched)

\* an error linked to the exam and a later error without a link on the exam's
\* date are in one group in that order
C29_Witness ==
    /\ Summarized
    /\ Len(call.errors) = 2
    /\ Get(call.errors[1], "mock_exam_id", None) = call.mock_exam_id
    /\ call.errors[1].date # call.exam_date
    /\ Get(call.errors[2], "mock_exam_id", None) = None
    /\ call.errors[2].date = call.exam_date
    /\ ret = (Str(<<"Algebra">>) :> <<call.errors[1], call.errors[2]>>)

\* without a date for the exam an error without a link is left out
C29_WitnessNoDate ==
    /\ Summarized
    /\ call.exam_date = None
    /\ Len(call.errors) = 2
    /\ Get(call.errors[1], "mock_exam_id", None) = None
    /\ Get(call.errors[2], "mock_exam_id", None) = call.mock_exam_id
    /\ ret = (SubjectOf(call.errors[2]) :> <<call.errors[2]>>)

Counted == call.fn \in {"count_error_types", "count_subjects", "count_topics", "count_difficulties"}

RECURSIVE SumCounts(_, _)
SumCounts(counts, keys) ==
    IF keys = {} THEN 0
    ELSE LET k == CHOOSE x \in keys : TRUE
         IN  counts[k] + SumCounts(counts, keys \ {k})

\* C2: the counts of a field counter sum to the number of input records, and
\* every count is at least 1.
C2_CountsSumToLength ==
    Counted =>
        /\ SumCounts(ret, DOMAIN ret) = Len(call.data)
        /\ \A k \in DOMAIN ret : ret[k] >= 1

\* subjects were counted over a record without the field, a blank one, a
\* non-str one and a plain one
C2_Witness ==
    /\ call.fn = "count_subjects"
    /\ Len(call.data) = 3
    /\ \E i \in 1..3 : "subject" \notin DOMAIN call.data[i] \/ ~IsStr(call.data[i].subject)
    /\ \E i \in 1..3 : "subject" \in DOMAIN call.data[i] /\ call.data[i].subject = Str(<<" ">>)
    /\ \E i \in 1..3 : "subject" \in DOMAIN call.data[i] /\ call.data[i].subject = Str(<<"Optics">>)
    /\ SumCounts(ret, DOMAIN ret) = 3

Filtered == call.fn = "filter_data_by_range"

\* C3: filtering the result again, with the same months at the same reference
\* time, gives the result back: the same records in the same order.
C3_FilterIdempotent ==
    Filtered => filter_data_by_range(ret, call.months, call.at) = ret

\* a filter with a cutoff kept a record and dropped another
C3_Witness ==
    /\ Filtered
    /\ call.months # None
    /\ Len(ret) >= 1
    /\ Len(ret) < Len(call.data)

\* the record has a date that parses
Parseable(item) == "date" \in DOMAIN item /\ ValidDateText(item.date)

\* <<year, month>> of a day
MonthOf(day) == <<FromOrdinal(day)[1], FromOrdinal(day)[2]>>

\* the date of the record (midnight of its day) is on or after the cutoff of
\* the call: no cutoff for null, the first day of the current month for 0,
\* the instant of the call minus N * 30 days for N
OnOrAfterCutoff(item) ==
    LET day == ToOrdinal(item.date.v[3], item.date.v[2], item.date.v[1])
    IN  IF call.months = None THEN TRUE
        ELSE IF call.months.v[1] = 0
             THEN \/ MonthOf(day)[1] > MonthOf(call.at.day)[1]
                  \/ MonthOf(day)[1] = MonthOf(call.at.day)[1] /\ MonthOf(day)[2] >= MonthOf(call.at.day)[2]
             ELSE \/ day > call.at.day - call.months.v[1] * 30
                  \/ day = call.at.day - call.months.v[1] * 30 /\ call.at.tod = 0

\* s is t with some elements left out
RECURSIVE IsSubsequence(_, _)
IsSubsequence(s, t) ==
    IF s = <<>> THEN TRUE
    ELSE IF t = <<>> THEN FALSE
    ELSE IF Head(s) = Head(t) THEN IsSubsequence(Tail(s), Tail(t))
    ELSE IsSubsequence(s, Tail(t))

\* C19: a record with a parseable date is kept exactly when its date is on or
\* after the cutoff (none for null, midnight of the first day of the current
\* month for 0, the current instant minus N * 30 days for N > 0), and the
\* result is a subsequence of the input in input order.
C19_KeptFromCutoff ==
    Filtered =>
        /\ SelectSeq(ret, Parseable)
               = SelectSeq(call.data, LAMBDA item : Parseable(item) /\ OnOrAfterCutoff(item))
        /\ IsSubsequence(ret, call.data)

\* called later than midnight with months = 1: the record dated 30 days
\* before is dropped and the record of the day after it is kept
C19_Witness ==
    /\ Filtered
    /\ call.months = IntV(1)
    /\ call.at.tod = 1
    /\ Len(call.data) = 2
    /\ call.data[1] = [date |-> FormatDisplay(call.at.day - 30)]
    /\ call.data[2] = [date |-> FormatDisplay(call.at.day - 29)]
    /\ ret = <<call.data[2]>>

\* called on the last day of a month with months = 0: the record of the first
\* of that month is kept, the record of the day before is dropped
C19_WitnessCalendarMonth ==
    /\ Filtered
    /\ call.months = IntV(0)
    /\ call.at.day = NEW_YEAR - 1
    /\ call.data = <<[date |-> DateText(30, 11, 2023)], [date |-> DateText(1, 12, 2023)]>>
    /\ ret = <<[date |-> DateText(1, 12, 2023)]>>

\* C20 as stated: for every months value the result holds no record whose
\* date is missing or does not parse.
C20_NoUnparseableInResult ==
    Filtered => \A i \in 1..Len(ret) : Parseable(ret[i])

\* C20 as amended: for months = 0 and months = N > 0 the result holds no
\* record whose date is missing or does not parse; for months = null the
\* result is the input as given, such records included.
C20_NoUnparseableUnderCutoff ==
    Filtered =>
        IF call.months = None THEN ret = call.data
        ELSE \A i \in 1..Len(ret) : Parseable(ret[i])

\* a filter with a cutoff was given a record whose date does not parse next
\* to a record it keeps
C20_Witness ==
    /\ Filtered
    /\ call.months # None
    /\ Len(call.data) = 2
    /\ \E i \in 1..2 : ~Parseable(call.data[i]) /\ "date" \in DOMAIN call.data[i] /\ Truthy(call.data[i].date)
    /\ Len(ret) = 1
    /\ Parseable(ret[1])

\* the filter without a cutoff hands back a record without a date
C20_WitnessAllTime ==
    /\ Filtered
    /\ call.months = None
    /\ \E i \in 1..Len(ret) : ~Parseable(ret[i])

Aggregated == call.fn \in {"aggregate_by_topic", "aggregate_by_subject"}

\* the key is a text that is not blank
ProperKey(k) == k.t = "str" /\ \E i \in 1..Len(k.v) : k.v[i] # " "

\* C24 as stated: no key of a counter, of a grouper or of the error summary
\* is an empty or whitespace-only text (nor a value that is no text): such
\* field values are counted under the default key.
C24_NoBlankKeys ==
    (Counted \/ Aggregated \/ Summarized) => \A k \in DOMAIN ret : ProperKey(k)

\* what holds: the keys of count_subjects and count_topics are texts that
\* are not blank, without blanks around them
C24_SubjectAndTopicKeys ==
    call.fn \in {"count_subjects", "count_topics"} =>
        \A k \in DOMAIN ret : ProperKey(k) /\ k.v[1] # " " /\ k.v[Len(k.v)] # " "

\* count_error_types counted an empty type under the empty key
C24_EmptyTypeKey ==
    /\ call.fn = "count_error_types"
    /\ Str(<<>>) \in DOMAIN ret

----------------------------------------------------------------------------
(* Rounding.  round(x, ndigits) of a float x: the nearest multiple of       *)
(* 10^-ndigits.  x is the quotient num / den and the result is counted in   *)
(* units of 1 / scale.  When the quotient lies exactly half way between two *)
(* multiples, the binary value of the double decides; both neighbours are   *)
(* admitted.                                                                *)

RoundChoices(num, den, scale) ==
    LET q == (num * scale) \div den
        r == (num * scale) % den
    IN  IF 2 * r < den THEN {q}
        ELSE IF 2 * r > den THEN {q + 1}
        ELSE {q, q + 1}

----------------------------------------------------------------------------
(* Session statistics: calculate_session_statistics.  In the result,       *)
(* avg_accuracy is in tenths of a percent, avg_pace in hundredths of a     *)
(* minute per question, total_study_time in tenths of an hour.             *)

\* the placeholder text (an em dash)
SENTINEL == Str(<<"-">>)

SessionSubject(s) == Get(s, "subject", Str(<<"Unknown">>))

TotalOf(sessions, field) == SumSeq([i \in 1..Len(sessions) |-> Get(sessions[i], field, 0)])

\* the keys of subject_stats in insertion order
RECURSIVE SubjectOrder(_)
SubjectOrder(sessions) ==
    IF sessions = <<>> THEN <<>>
    ELSE LET before == SubjectOrder(SubSeq(sessions, 1, Len(sessions) - 1))
             subj == SessionSubject(sessions[Len(sessions)])
         IN  IF \E i \in 1..Len(before) : before[i] = subj THEN before ELSE Append(before, subj)

\* subject_stats[subj]: the sums of correct_count and total_questions
SubjectStats(sessions, subj) ==
    LET own == SelectSeq(sessions, LAMBDA s : SessionSubject(s) = subj)
    IN  [correct |-> TotalOf(own, "correct_count"), total |-> TotalOf(own, "total_questions")]

\* the loop over subject_stats.items(): best and worst so far after the first
\* n subjects; accuracies are kept as fractions correct / total (times 100)
RECURSIVE BestWorst(_, _, _)
BestWorst(sessions, order, n) ==
    IF n = 0
    THEN [best_subject |-> SENTINEL, best_num |-> 0, best_den |-> 1,
          worst_subject |-> SENTINEL, worst_num |-> 100, worst_den |-> 1]
    ELSE LET prev == BestWorst(sessions, order, n - 1)
             stats == SubjectStats(sessions, order[n])
             num == stats.correct * 100
             den == stats.total
         IN  IF den > 0
             THEN LET better == num * prev.best_den > prev.best_num * den
                      worse == num * prev.worst_den < prev.worst_num * den
                  IN  [best_subject |-> IF better THEN order[n] ELSE prev.best_subject,
                       best_num |-> IF better THEN num ELSE prev.best_num,
                       best_den |-> IF better THEN den ELSE prev.best_den,
                       worst_subject |-> IF worse THEN order[n] ELSE prev.worst_subject,
                       worst_num |-> IF worse THEN num ELSE prev.worst_num,
                       worst_den |-> IF worse THEN den ELSE prev.worst_den]
             ELSE prev

\* the summary with the 60 percent threshold inclusive
SessionSummary_inclusive(sessions, avg_accuracy, avg_pace, total_study_time) ==
    LET bw == BestWorst(sessions, SubjectOrder(sessions), Len(SubjectOrder(sessions)))
    IN  [total_sessions |-> Len(sessions),
         total_questions |-> TotalOf(sessions, "total_questions"),
         avg_accuracy |-> avg_accuracy,
         avg_pace |-> avg_pace,
         total_study_time |-> total_study_time,
         best_subject |-> bw.best_subject,
         improvement_needed |->
             IF bw.worst_num <= 60 * bw.worst_den THEN bw.worst_subject ELSE SENTINEL]

\* the summary, given the rounded values
SessionSummary(sessions, avg_accuracy, avg_pace, total_study_time) ==
    LET bw == BestWorst(sessions, SubjectOrder(sessions), Len(SubjectOrder(sessions)))
    IN  [total_sessions |-> Len(sessions),
         total_questions |-> TotalOf(sessions, "total_questions"),
         avg_accuracy |-> avg_accuracy,
         avg_pace |-> avg_pace,
         total_study_time |-> total_study_time,
         best_subject |-> bw.best_subject,
         improvement_needed |->
             IF bw.worst_num < 60 * bw.worst_den THEN bw.worst_subject ELSE SENTINEL]

EmptySessionSummary ==
    [total_sessions |-> 0, total_questions |-> 0, avg_accuracy |-> 0, avg_pace |-> 0,
     total_study_time |-> 0, best_subject |-> SENTINEL, improvement_needed |-> SENTINEL]

\* calculate_session_statistics with the pace averaged per session
calculate_session_statistics_per_session(sessions) ==
    IF sessions = <<>> THEN {EmptySessionSummary}
    ELSE LET total_questions == TotalOf(sessions, "total_questions")
             total_correct == TotalOf(sessions, "correct_count")
             total_time == TotalOf(sessions, "duration_minutes")
         IN  {SessionSummary(sessions, a, p, h) :
                 a \in (IF total_questions > 0 THEN RoundChoices(total_correct * 100, total_questions, 10) ELSE {0}),
                 p \in (IF total_questions > 0 THEN RoundChoices(total_time, Len(sessions), 100) ELSE {0}),
                 h \in RoundChoices(total_time, 60, 10)}

\* the values calculate_session_statistics can return
calculate_session_statistics(sessions) ==
    IF sessions = <<>> THEN {EmptySessionSummary}
    ELSE LET total_questions == TotalOf(sessions, "total_questions")
             total_correct == TotalOf(sessions, "correct_count")
             total_time == TotalOf(sessions, "duration_minutes")
         IN  {SessionSummary(sessions, a, p, h) :
                 a \in (IF total_questions > 0 THEN RoundChoices(total_correct * 100, total_questions, 10) ELSE {0}),
                 p \in (IF total_questions > 0 THEN RoundChoices(total_time, total_questions, 100) ELSE {0}),
                 h \in RoundChoices(total_time, 60, 10)}

MaxSessions == 2

SessionSubjects == {Str(<<"Algebra">>), Str(<<"Optics">>)}

\* <<total_questions, correct_count>>: accuracies 70, 30, 60, 0 percent, and
\* a session without questions
SessionScores == {<<10, 7>>, <<10, 3>>, <<5, 3>>, <<4, 0>>, <<0, 0>>}

SessionMinutes == {20, 30, 50}

StudySessions ==
    {[subject |-> subj, total_questions |-> sc[1], correct_count |-> sc[2], duration_minutes |-> m] :
        subj \in SessionSubjects, sc \in SessionScores, m \in SessionMinutes}
    \cup {[subject |-> subj] : subj \in SessionSubjects}

CallSessionStatistics ==
    /\ Idle
    /\ \E sessions \in SeqsUpTo(StudySessions, MaxSessions) :
         /\ call' = [fn |-> "calculate_session_statistics", sessions |-> sessions]
         /\ ret' \in calculate_session_statistics(sessions)
         /\ UNCHANGED <<now, study_sessions>>

NextSess == CallSessionStatistics \/ Return

SpecSess == Init /\ [][NextSess]_vars

SessionStats == call.fn = "calculate_session_statistics"

\* the sessions of the worked example: 10 questions, 7 correct, 20 minutes and
\* 10 questions, 3 correct, 30 minutes
ExampleSessions(sessions) ==
    /\ Len(sessions) = 2
    /\ \A i \in 1..2 : "total_questions" \in DOMAIN sessions[i] /\ sessions[i].total_questions = 10
    /\ sessions[1].correct_count = 7 /\ sessions[1].duration_minutes = 20
    /\ sessions[2].correct_count = 3 /\ sessions[2].duration_minutes = 30

ScoredSubjects(sessions) ==
    {subj \in {SessionSubject(sessions[i]) : i \in 1..Len(sessions)} :
        SubjectStats(sessions, subj).total > 0}

\* the per-subject accuracy of a is at most that of b (both have questions)
AccuracyLeq(sessions, a, b) ==
    SubjectStats(sessions, a).correct * SubjectStats(sessions, b).total
        <= SubjectStats(sessions, b).correct * SubjectStats(sessions, a).total

\* the per-subject accuracy of a is below pct percent
AccuracyBelow(sessions, a, pct) ==
    SubjectStats(sessions, a).correct * 100 < pct * SubjectStats(sessions, a).total

\* C11 as stated: when some subject has a question, best_subject is a subject
\* with questions whose accuracy is the highest among the subjects with
\* questions, also when that highest accuracy is 0.
C11_BestSubjectIsHighest ==
    (SessionStats /\ ScoredSubjects(call.sessions) # {}) =>
        /\ ret.best_subject \in ScoredSubjects(call.sessions)
        /\ \A other \in ScoredSubjects(call.sessions) :
               AccuracyLeq(call.sessions, other, ret.best_subject)

\* every subject with questions has accuracy 0 and best_subject is the
\* placeholder
C11_AllZeroGivesPlaceholder ==
    /\ SessionStats
    /\ ScoredSubjects(call.sessions) # {}
    /\ \A subj \in ScoredSubjects(call.sessions) : SubjectStats(call.sessions, subj).correct = 0
    /\ ret.best_subject = SENTINEL

\* C12: improvement_needed is a subject with the lowest per-subject accuracy
\* exactly when that lowest accuracy is below 60; when every subject with
\* questions is at 60 or above (or no subject has questions) it is the
\* placeholder.
C12_ImprovementNeeded ==
    SessionStats =>
        LET scored == ScoredSubjects(call.sessions)
        IN  IF \E subj \in scored : AccuracyBelow(call.sessions, subj, DEVELOPING_THRESHOLD)
            THEN /\ ret.improvement_needed \in scored
                 /\ \A other \in scored : AccuracyLeq(call.sessions, ret.improvement_needed, other)
            ELSE ret.improvement_needed = SENTINEL

\* two subjects with questions, the second one the lower and below 60: it is
\* the one named
C12_Witness ==
    /\ SessionStats
    /\ Len(call.sessions) = 2
    /\ ScoredSubjects(call.sessions) = SessionSubjects
    /\ ret.improvement_needed = SessionSubject(call.sessions[2])
    /\ ~AccuracyLeq(call.sessions, SessionSubject(call.sessions[1]), SessionSubject(call.sessions[2]))

\* the lowest accuracy is exactly 60 and nothing is named
C12_WitnessAtThreshold ==
    /\ SessionStats
    /\ ScoredSubjects(call.sessions) # {}
    /\ \E subj \in ScoredSubjects(call.sessions) :
           ~AccuracyBelow(call.sessions, subj, 60) /\ AccuracyBelow(call.sessions, subj, 61)
    /\ ret.improvement_needed = SENTINEL

----------------------------------------------------------------------------
(* Mock exam statistics: calculate_mock_exam_statistics.  Score            *)
(* percentages are whole percents; the scores of the result are in tenths  *)
(* of a percent.                                                           *)

\* datetime.min
DATETIME_MIN == [day |-> 1, tod |-> 0]

\* the sort key: parse_date_str(x.get("date", "")) or datetime.min
DateKey(x) ==
    LET raw == Get(x, "date", Str(<<>>))
    IN  IF ValidDateText(raw) THEN parse_date_str(raw) ELSE DATETIME_MIN

DtLess(a, b) == ~DtGeq(a, b)

\* the place of x in the sorted list acc: after every element that does not
\* sort after it, so that equal keys keep their input order (sorted is stable,
\* also with reverse=True)
RECURSIVE InsertByDate(_, _, _)
InsertByDate(acc, x, reverse) ==
    IF acc = <<>> THEN <<x>>
    ELSE LET last == acc[Len(acc)]
             after == IF reverse THEN DtLess(DateKey(last), DateKey(x))
                      ELSE DtLess(DateKey(x), DateKey(last))
         IN  IF after THEN Append(InsertByDate(SubSeq(acc, 1, Len(acc) - 1), x, reverse), last)
             ELSE Append(acc, x)

\* sorted(items, key=DateKey, reverse=reverse)
RECURSIVE SortedByDate(_, _)
SortedByDate(items, reverse) ==
    IF items = <<>> THEN <<>>
    ELSE InsertByDate(SortedByDate(SubSeq(items, 1, Len(items) - 1), reverse), items[Len(items)], reverse)

ScoreOf(exam) == Get(exam, "score_percentage", 0)

TotalScore(exams) == SumSeq([i \in 1..Len(exams) |-> ScoreOf(exams[i])])

RECURSIVE MaxScore(_)
MaxScore(exams) ==
    IF Len(exams) = 1 THEN ScoreOf(exams[1])
    ELSE LET m == MaxScore(Tail(exams)) IN IF ScoreOf(exams[1]) >= m THEN ScoreOf(exams[1]) ELSE m

\* the trend with the dead zone left open at its two ends
TrendOf_inclusive(latest_score, prev_total, prev_count) ==
    IF latest_score * prev_count >= prev_total + 5 * prev_count THEN "Improving"
    ELSE IF latest_score * prev_count <= prev_total - 5 * prev_count THEN "Declining"
    ELSE "Stable"

\* latest_score against prev_avg = prev_total / prev_count, plus and minus 5
TrendOf(latest_score, prev_total, prev_count) ==
    IF latest_score * prev_count > prev_total + 5 * prev_count THEN "Improving"
    ELSE IF latest_score * prev_count < prev_total - 5 * prev_count THEN "Declining"
    ELSE "Stable"

EmptyExamStatistics ==
    [total_exams |-> 0, avg_score |-> 0, best_score |-> 0, latest_score |-> 0, trend |-> "-"]

\* calculate_mock_exam_statistics taking the last exam given as the latest
calculate_mock_exam_statistics_last_given(mock_exams) ==
    IF mock_exams = <<>> THEN {EmptyExamStatistics}
    ELSE LET total_exams == Len(mock_exams)
             latest_score == ScoreOf(mock_exams[total_exams])
             trend == IF total_exams >= 2
                      THEN TrendOf(latest_score, TotalScore(SubSeq(mock_exams, 1, total_exams - 1)),
                                   total_exams - 1)
                      ELSE "-"
         IN  {[total_exams |-> total_exams,
               avg_score |-> avg,
               best_score |-> MaxScore(mock_exams) * 10,
               latest_score |-> latest_score * 10,
               trend |-> trend] : avg \in RoundChoices(TotalScore(mock_exams), total_exams, 10)}

\* the values calculate_mock_exam_statistics can return
calculate_mock_exam_statistics(mock_exams) ==
    IF mock_exams = <<>> THEN {EmptyExamStatistics}
    ELSE LET total_exams == Len(mock_exams)
             sorted_by_date == SortedByDate(mock_exams, TRUE)
             latest_score == ScoreOf(sorted_by_date[1])
             trend == IF total_exams >= 2
                      THEN TrendOf(latest_score, TotalScore(Tail(sorted_by_date)), total_exams - 1)
                      ELSE "-"
         IN  {[total_exams |-> total_exams,
               avg_score |-> avg,
               best_score |-> MaxScore(mock_exams) * 10,
               latest_score |-> latest_score * 10,
               trend |-> trend] : avg \in RoundChoices(TotalScore(mock_exams), total_exams, 10)}

MaxExams == 3

ExamScores == {55, 60, 65, 66, 75}

\* the two dates of the worked example and a text that is no date
ExamDateValues == {DateText(1, 1, 2024), DateText(1, 2, 2024), Str(<<"soon">>)}

MockExams ==
    {[exam_type |-> Str(<<"ENEM">>), date |-> d, score_percentage |-> p] :
        d \in ExamDateValues, p \in ExamScores}

CallExamStatistics ==
    /\ Idle
    /\ \E mock_exams \in SeqsUpTo(MockExams, MaxExams) :
         /\ call' = [fn |-> "calculate_mock_exam_statistics", mock_exams |-> mock_exams]
         /\ ret' \in calculate_mock_exam_statistics(mock_exams)
         /\ UNCHANGED <<now, study_sessions>>

NextExam == CallExamStatistics \/ Return

SpecExam == Init /\ [][NextExam]_vars

ExamStats == call.fn = "calculate_mock_exam_statistics"

\* exam i is a latest one: no exam has a later date (no date counts as earliest)
IsLatest(exams, i) == \A j \in 1..Len(exams) : DtGeq(DateKey(exams[i]), DateKey(exams[j]))

ScoreSumExcept(exams, i) == TotalScore(exams) - ScoreOf(exams[i])

\* C10: with at least 2 exams the trend is Improving exactly when the latest
\* score is above the mean of all the other scores plus 5, Declining exactly
\* when it is below that mean minus 5 and Stable otherwise (a difference of
\* exactly 5 is Stable); with fewer than 2 exams the trend is the placeholder.
\* Exams of 60 percent on 01-01-2024 and 75 percent on 01-02-2024 are Improving.
C10_TrendDeadZone ==
    ExamStats =>
        LET exams == call.mock_exams
            n == Len(exams)
        IN  /\ n < 2 => ret.trend = "-"
            /\ n >= 2 =>
                \E i \in 1..n :
                    /\ IsLatest(exams, i)
                    /\ ret.latest_score = ScoreOf(exams[i]) * 10
                    /\ LET diff == ScoreOf(exams[i]) * (n - 1) - ScoreSumExcept(exams, i)
                       IN  /\ (ret.trend = "Improving") <=> (diff > 5 * (n - 1))
                           /\ (ret.trend = "Declining") <=> (diff < 0 - 5 * (n - 1))
                           /\ (ret.trend = "Stable") <=> (diff <= 5 * (n - 1) /\ diff >= 0 - 5 * (n - 1))
            /\ (/\ n = 2
                /\ \E i \in 1..2 : exams[i].date = DateText(1, 1, 2024) /\ exams[i].score_percentage = 60
                /\ \E i \in 1..2 : exams[i].date = DateText(1, 2, 2024) /\ exams[i].score_percentage = 75)
               => ret.trend = "Improving"

\* the latest of three exams was exactly 5 points above the mean of the others
C10_Witness ==
    /\ ExamStats
    /\ Len(call.mock_exams) = 3
    /\ ret.trend = "Stable"
    /\ \E i \in 1..3 :
        /\ IsLatest(call.mock_exams, i)
        /\ ret.latest_score = ScoreOf(call.mock_exams[i]) * 10
        /\ ScoreOf(call.mock_exams[i]) * 2 - ScoreSumExcept(call.mock_exams, i) = 10

\* the worked example: 60 percent, then 75 percent
C10_WitnessExample ==
    /\ ExamStats
    /\ call.mock_exams = << [exam_type |-> Str(<<"ENEM">>), date |-> DateText(1, 1, 2024), score_percentage |-> 60],
                            [exam_type |-> Str(<<"ENEM">>), date |-> DateText(1, 2, 2024), score_percentage |-> 75] >>
    /\ ret.trend = "Improving"

\* no exam has a parseable date strictly later than the date of exam i (an
\* exam without a parseable date ranks as the earliest)
MostRecent(exams, i) ==
    \A j \in 1..Len(exams) :
        ValidDateText(Get(exams[j], "date", Str(<<>>))) =>
            /\ ValidDateText(Get(exams[i], "date", Str(<<>>)))
            /\ ~DtLess(parse_date_str(exams[i].date), parse_date_str(exams[j].date))

\* the trend that the score of exam i gives against the mean of the scores of
\* all the other exams
TrendAgainstOthers(exams, i) ==
    LET others == Len(exams) - 1
        sum == ScoreSumExcept(exams, i)
        latest == ScoreOf(exams[i])
    IN  IF latest * others > sum + 5 * others THEN "Improving"
        ELSE IF latest * others < sum - 5 * others THEN "Declining"
        ELSE "Stable"

\* C16: for a non-empty collection latest_score is the score of an exam of the
\* most recent date (exams without a parseable date rank as earliest), and
\* the trend is the one that this score gives against the scores of exactly
\* all the other exams.
C16_LatestByDate ==
    (ExamStats /\ call.mock_exams # <<>>) =>
        \E i \in 1..Len(call.mock_exams) :
            /\ MostRecent(call.mock_exams, i)
            /\ ret.latest_score = Get(call.mock_exams[i], "score_percentage", 0) * 10
            /\ Len(call.mock_exams) >= 2 => ret.trend = TrendAgainstOthers(call.mock_exams, i)

\* the most recent of three exams was given second, between an earlier exam
\* and one without a parseable date, and has the lowest score of the three
C16_Witness ==
    /\ ExamStats
    /\ Len(call.mock_exams) = 3
    /\ call.mock_exams[1].date = DateText(1, 1, 2024)
    /\ call.mock_exams[2].date = DateText(1, 2, 2024)
    /\ ~ValidDateText(call.mock_exams[3].date)
    /\ call.mock_exams[2].score_percentage < call.mock_exams[1].score_percentage
    /\ call.mock_exams[2].score_percentage < call.mock_exams[3].score_percentage
    /\ ret.latest_score = call.mock_exams[2].score_percentage * 10
    /\ ret.trend = "Declining"

----------------------------------------------------------------------------
(* Mock exam trajectory: get_mock_exam_trajectory.  score, max_score and   *)
(* percentage of an entry are in tenths; improvement is None or IntV of a  *)
(* number of tenths.                                                       *)

ExamTypeOf(exam) == Get(exam, "exam_type", Str(<<"General">>))

\* the entry appended for one exam, given the attempt number
TrajectoryEntry(exam, attempt_number) ==
    [exam_type |-> ExamTypeOf(exam),
     exam_name |-> Get(exam, "exam_name", Str(<<"Untitled">>)),
     date |-> Get(exam, "date", Str(<<>>)),
     score |-> Get(exam, "total_score", 0) * 10,
     max_score |-> Get(exam, "max_possible_score", 100) * 10,
     percentage |-> Get(exam, "score_percentage", 0) * 10,
     attempt_number |-> attempt_number]

\* the first loop with one counter for all the exam types
RECURSIVE Attempts_global(_)
Attempts_global(sorted_exams) ==
    IF sorted_exams = <<>> THEN [trajectory |-> <<>>, exam_type_counters |-> EmptyDict]
    ELSE LET prev == Attempts_global(SubSeq(sorted_exams, 1, Len(sorted_exams) - 1))
             exam == sorted_exams[Len(sorted_exams)]
         IN  [trajectory |-> Append(prev.trajectory, TrajectoryEntry(exam, Len(sorted_exams))),
              exam_type_counters |-> prev.exam_type_counters]

\* the first loop: trajectory and exam_type_counters after the exams given
RECURSIVE Attempts(_)
Attempts(sorted_exams) ==
    IF sorted_exams = <<>> THEN [trajectory |-> <<>>, exam_type_counters |-> EmptyDict]
    ELSE LET prev == Attempts(SubSeq(sorted_exams, 1, Len(sorted_exams) - 1))
             exam == sorted_exams[Len(sorted_exams)]
             exam_type == ExamTypeOf(exam)
             counters == With(prev.exam_type_counters, exam_type,
                              Get(prev.exam_type_counters, exam_type, 0) + 1)
         IN  [trajectory |-> Append(prev.trajectory, TrajectoryEntry(exam, counters[exam_type])),
              exam_type_counters |-> counters]

\* the second loop, for i in range(1, len(trajectory)): entry i (counted from
\* 1 here, so i >= 2) gets its improvement; the first entry is not touched
Improvements(trajectory) ==
    [i \in 1..Len(trajectory) |->
        IF i = 1 THEN trajectory[i]
        ELSE IF trajectory[i].exam_type = trajectory[i - 1].exam_type
             THEN With(trajectory[i], "improvement",
                       IntV(trajectory[i].percentage - trajectory[i - 1].percentage))
             ELSE With(trajectory[i], "improvement", None)]

\* get_mock_exam_trajectory sorted newest first
get_mock_exam_trajectory_newest_first(mock_exams) ==
    IF mock_exams = <<>> THEN <<>>
    ELSE Improvements(Attempts(SortedByDate(mock_exams, TRUE)).trajectory)

get_mock_exam_trajectory(mock_exams) ==
    IF mock_exams = <<>> THEN <<>>
    ELSE Improvements(Attempts(SortedByDate(mock_exams, FALSE)).trajectory)

MaxTrajectory == 3

\* two exam types (records without the field are added below)
TrajectoryTypes == {Str(<<"ENEM">>), Str(<<"SAT">>)}

\* two dates and a text that is no date (records without the field are added
\* below)
TrajectoryDates == {DateText(1, 1, 2024), DateText(1, 2, 2024), Str(<<"soon">>)}

TrajectoryScores == {60, 75}

TrajectoryExams ==
    {[exam_type |-> t, date |-> d, score_percentage |-> p] :
        t \in TrajectoryTypes, d \in TrajectoryDates, p \in TrajectoryScores}
    \cup {[date |-> DateText(1, 1, 2024), score_percentage |-> p] : p \in TrajectoryScores}
    \cup {[exam_type |-> Str(<<"ENEM">>), score_percentage |-> p] : p \in TrajectoryScores}

CallTrajectory ==
    /\ Idle
    /\ \E mock_exams \in SeqsUpTo(TrajectoryExams, MaxTrajectory) :
         /\ call' = [fn |-> "get_mock_exam_trajectory", mock_exams |-> mock_exams]
         /\ ret' = get_mock_exam_trajectory(mock_exams)
         /\ UNCHANGED <<now, study_sessions>>

NextTraj == CallTrajectory \/ Return

SpecTraj == Init /\ [][NextTraj]_vars

Trajectory == call.fn = "get_mock_exam_trajectory"

\* the exam has a date that parses
HasDate(exam) == ValidDateText(Get(exam, "date", Str(<<>>)))

\* the entry shows the exam: its type, its date text and its percentage
EntryOf(entry, exam) ==
    /\ entry.exam_type = Get(exam, "exam_type", Str(<<"General">>))
    /\ entry.date = Get(exam, "date", Str(<<>>))
    /\ entry.percentage = Get(exam, "score_percentage", 0) * 10

\* C13: the trajectory has one entry per exam, a permutation of the input in
\* ascending date order: no entry is dated later than a following one, every
\* exam without a parseable date comes before every exam with one, and exams
\* of equal date keep their input order.
C13_TrajectorySortedByDate ==
    Trajectory =>
        LET exams == call.mock_exams
            n == Len(exams)
        IN  /\ Len(ret) = n
            /\ \E p \in Permutations(1..n) :
                /\ \A i \in 1..n : EntryOf(ret[i], exams[p[i]])
                /\ \A i, j \in 1..n :
                     i < j =>
                        /\ DtGeq(DateKey(exams[p[j]]), DateKey(exams[p[i]]))
                        /\ HasDate(exams[p[i]]) => HasDate(exams[p[j]])
                        /\ DateKey(exams[p[i]]) = DateKey(exams[p[j]]) => p[i] < p[j]

\* the later exam was given first, an exam without a parseable date second and
\* the earlier exam last: they come out second, third, first
C13_Witness ==
    /\ Trajectory
    /\ Len(call.mock_exams) = 3
    /\ HasDate(call.mock_exams[1]) /\ ~HasDate(call.mock_exams[2]) /\ HasDate(call.mock_exams[3])
    /\ DtLess(DateKey(call.mock_exams[3]), DateKey(call.mock_exams[1]))
    /\ call.mock_exams[1].score_percentage # call.mock_exams[3].score_percentage
    /\ EntryOf(ret[1], call.mock_exams[2])
    /\ EntryOf(ret[2], call.mock_exams[3])
    /\ EntryOf(ret[3], call.mock_exams[1])

\* two exams of one date and different scores come out in their input order
C13_WitnessEqualDates ==
    /\ Trajectory
    /\ Len(call.mock_exams) = 2
    /\ HasDate(call.mock_exams[1])
    /\ HasDate(call.mock_exams[2])
    /\ call.mock_exams[1].date = call.mock_exams[2].date
    /\ call.mock_exams[1].score_percentage > call.mock_exams[2].score_percentage
    /\ EntryOf(ret[1], call.mock_exams[1])
    /\ EntryOf(ret[2], call.mock_exams[2])

\* C14: the entries of one exam type carry the attempt numbers 1, 2, ..., k in
\* output order, whatever entries of other types lie between them: the
\* attempt number of an entry is the number of entries of its type up to it.
C14_AttemptNumbersPerType ==
    Trajectory =>
        \A i \in 1..Len(ret) :
            ret[i].attempt_number
                = Cardinality({j \in 1..i : ret[j].exam_type = ret[i].exam_type})

\* an exam of another type lies between the first and the second attempt
C14_Witness ==
    /\ Trajectory
    /\ Len(ret) = 3
    /\ ret[1].exam_type = ret[3].exam_type
    /\ ret[2].exam_type # ret[1].exam_type
    /\ ret[1].attempt_number = 1 /\ ret[2].attempt_number = 1 /\ ret[3].attempt_number = 2

\* C15 as stated: an entry after the first whose predecessor has its exam type
\* has improvement = its percentage minus the predecessor's; every other
\* entry, the first one included, has a null improvement.
C15_ImprovementBetweenSameType ==
    Trajectory =>
        \A i \in 1..Len(ret) :
            /\ "improvement" \in DOMAIN ret[i]
            /\ ret[i].improvement =
                   IF i > 1 /\ ret[i].exam_type = ret[i - 1].exam_type
                   THEN IntV(ret[i].percentage - ret[i - 1].percentage)
                   ELSE None

\* what the entries after the first carry: the difference, or null after an
\* entry of another type even when an earlier attempt of the type exists
C15_LaterEntries ==
    Trajectory =>
        \A i \in 2..Len(ret) :
            /\ "improvement" \in DOMAIN ret[i]
            /\ ret[i].improvement =
                   IF ret[i].exam_type = ret[i - 1].exam_type
                   THEN IntV(ret[i].percentage - ret[i - 1].percentage)
                   ELSE None

\* the first entry has no improvement field at all
C15_FirstEntryWithoutField ==
    /\ Trajectory
    /\ Len(ret) >= 1
    /\ "improvement" \notin DOMAIN ret[1]

----------------------------------------------------------------------------
(* Activity heatmap: get_activity_heatmap_data.  today is the value        *)
(* date.today() returns during the call (an ordinal).                      *)

\* the dates current takes in the while loop, first to last
DateRange(start_date, end_date) == [i \in 1..(end_date - start_date + 1) |-> start_date + (i - 1)]

\* current.strftime(DATE_FORMAT_DISPLAY) of the day whose "%Y-%m-%d" key is key
DisplayOfKey(key) == Str(<<key[3], key[2], key[1]>>)

\* activity_map after the initialisation loop
SeededMap(range) ==
    [key \in {FormatIso(range[i]) : i \in 1..Len(range)} |->
        [date |-> DisplayOfKey(key),
         questions_answered |-> 0,
         errors_logged |-> 0,
         exams_taken |-> 0,
         study_time |-> 0]]

\* dt and start_date <= dt.date() <= end_date
InWindow(record, start_date, end_date) ==
    LET raw == Get(record, "date", Str(<<>>))
    IN  /\ ValidDateText(raw)
        /\ start_date <= parse_date_str(raw).day
        /\ parse_date_str(raw).day <= end_date

KeyOf(record) == FormatIso(parse_date_str(record.date).day)

\* the counter overwritten with the amount of the last record of the day
Bump_assign(map, key, field, amount) == [map EXCEPT ![key][field] = amount]

\* activity_map[date_key][field] += amount
Bump(map, key, field, amount) == [map EXCEPT ![key][field] = @ + amount]

RECURSIVE AddSessions(_, _, _, _)
AddSessions(map, sessions, start_date, end_date) ==
    IF sessions = <<>> THEN map
    ELSE LET session == Head(sessions)
             next == IF InWindow(session, start_date, end_date)
                     THEN Bump(Bump(map, KeyOf(session), "questions_answered",
                                    Get(session, "total_questions", 0)),
                               KeyOf(session), "study_time", Get(session, "duration_minutes", 0))
                     ELSE map
         IN  AddSessions(next, Tail(sessions), start_date, end_date)

\* the loops over errors (errors_logged) and mock exams (exams_taken)
RECURSIVE AddEvents(_, _, _, _, _)
AddEvents(map, records, field, start_date, end_date) ==
    IF records = <<>> THEN map
    ELSE LET record == Head(records)
             next == IF InWindow(record, start_date, end_date)
                     THEN Bump(map, KeyOf(record), field, 1)
                     ELSE map
         IN  AddEvents(next, Tail(records), field, start_date, end_date)

\* the order of the display strings "%d-%m-%Y" of the keys
KeyLess_display(a, b) ==
    \/ a[3] < b[3]
    \/ (a[3] = b[3] /\ a[2] < b[2])
    \/ (a[3] = b[3] /\ a[2] = b[2] /\ a[1] < b[1])

\* the order of the "%Y-%m-%d" strings
KeyLess(a, b) ==
    \/ a[1] < b[1]
    \/ (a[1] = b[1] /\ a[2] < b[2])
    \/ (a[1] = b[1] /\ a[2] = b[2] /\ a[3] < b[3])

\* sorted(activity_map.keys())
RECURSIVE SortedKeys(_)
SortedKeys(keys) ==
    IF keys = {} THEN <<>>
    ELSE LET first == CHOOSE k \in keys : \A other \in keys \ {k} : KeyLess(k, other)
         IN  <<first>> \o SortedKeys(keys \ {first})

\* the intensity with the thresholds counted into the lower bucket
Intensity_inclusive(questions) ==
    IF questions = 0 THEN 0
    ELSE IF questions <= 10 THEN 1
    ELSE IF questions <= 30 THEN 2
    ELSE IF questions <= 50 THEN 3
    ELSE 4

\* the 0-4 intensity of a day
Intensity(questions) ==
    IF questions = 0 THEN 0
    ELSE IF questions < 10 THEN 1
    ELSE IF questions < 30 THEN 2
    ELSE IF questions < 50 THEN 3
    ELSE 4

get_activity_heatmap_data(sessions, errors, mock_exams, days, today) ==
    LET end_date == today
        start_date == end_date - days
        seeded == SeededMap(DateRange(start_date, end_date))
        with_sessions == AddSessions(seeded, sessions, start_date, end_date)
        with_errors == AddEvents(with_sessions, errors, "errors_logged", start_date, end_date)
        activity_map == AddEvents(with_errors, mock_exams, "exams_taken", start_date, end_date)
        keys == SortedKeys(DOMAIN activity_map)
    IN  [i \in 1..Len(keys) |->
            With(With(activity_map[keys[i]], "intensity",
                      Intensity(activity_map[keys[i]].questions_answered)),
                 "date_key", keys[i])]

MaxDays == 2

MaxHeatSessions == 1

MaxHeatEvents == 1

\* question counts on both sides of every intensity threshold
HeatQuestions == {0, 9, 10, 29, 30, 49, 50}

\* sessions of the last day of 2023 and the first of 2024, and one without a
\* date that parses
HeatSessions ==
    {[date |-> DateText(31, 12, 2023), total_questions |-> q, duration_minutes |-> 30] :
        q \in HeatQuestions}
    \cup {[date |-> DateText(1, 1, 2024), total_questions |-> 10, duration_minutes |-> 30],
          [date |-> Str(<<2023, 12, 31>>), total_questions |-> 10, duration_minutes |-> 30]}

\* two sessions given together: of one day, or of the two days around the
\* turn of the year
HeatSessionPairs ==
    LET both == {[date |-> DateText(31, 12, 2023), total_questions |-> 9, duration_minutes |-> 30],
                 [date |-> DateText(31, 12, 2023), total_questions |-> 10, duration_minutes |-> 45],
                 [date |-> DateText(1, 1, 2024), total_questions |-> 10, duration_minutes |-> 45]}
    IN  {<<a, b>> : a \in both, b \in both}

\* an error of the last day of 2023, and one of a week before
HeatErrors == {[date |-> DateText(31, 12, 2023)], [date |-> DateText(24, 12, 2023)]}

\* an exam of the last day of 2023
HeatExams == {[date |-> DateText(31, 12, 2023)]}

CallHeatmap ==
    /\ Idle
    /\ \E sessions \in SeqsUpTo(HeatSessions, MaxHeatSessions) \cup HeatSessionPairs,
          errors \in SeqsUpTo(HeatErrors, MaxHeatEvents),
          mock_exams \in SeqsUpTo(HeatExams, MaxHeatEvents),
          days \in 0..MaxDays :
         /\ call' = [fn |-> "get_activity_heatmap_data", sessions |-> sessions, errors |-> errors,
                     mock_exams |-> mock_exams, days |-> days, today |-> now.day]
         /\ ret' = get_activity_heatmap_data(sessions, errors, mock_exams, days, now.day)
         /\ UNCHANGED <<now, study_sessions>>

NextHeat == CallHeatmap \/ Return \/ Tick

SpecHeat == Init /\ [][NextHeat]_vars

Heatmapped == call.fn = "get_activity_heatmap_data"

\* C4: the heatmap has exactly days + 1 entries, the calendar days from today
\* minus days to today in ascending order, none missing or repeated; a day
\* without activity is present with all counts 0 and intensity 0.
C4_OneEntryPerDay ==
    Heatmapped =>
        /\ Len(ret) = call.days + 1
        /\ \A i \in 1..Len(ret) :
            /\ ret[i].date = FormatDisplay(call.today - call.days + (i - 1))
            /\ ret[i].date_key = FromOrdinal(call.today - call.days + (i - 1))
        /\ (call.sessions = <<>> /\ call.errors = <<>> /\ call.mock_exams = <<>>) =>
            \A i \in 1..Len(ret) :
                /\ ret[i].questions_answered = 0
                /\ ret[i].errors_logged = 0
                /\ ret[i].exams_taken = 0
                /\ ret[i].study_time = 0
                /\ ret[i].intensity = 0

\* a window over the turn of the year: the first entry is 31-12-2023, the last
\* 01-01-2024, and a day of the window had no activity
C4_Witness ==
    /\ Heatmapped
    /\ call.days >= 1
    /\ ret[Len(ret)].date = DateText(1, 1, 2024)
    /\ ret[Len(ret) - 1].date = DateText(31, 12, 2023)
    /\ ret[Len(ret) - 1].questions_answered > 0
    /\ ret[Len(ret)].questions_answered = 0
    /\ ret[Len(ret)].intensity = 0

\* C8: every entry of the heatmap carries the intensity of its own
\* questions_answered: 0 for 0, 1 for 1..9, 2 for 10..29, 3 for 30..49 and 4
\* from 50 on; the intensity is always in 0..4.
C8_IntensityBuckets ==
    Heatmapped =>
        \A i \in 1..Len(ret) :
            LET q == ret[i].questions_answered
                x == ret[i].intensity
            IN  /\ x \in 0..4
                /\ q >= 0
                /\ (x = 0) <=> (q = 0)
                /\ (x = 1) <=> (q \in 1..9)
                /\ (x = 2) <=> (q \in 10..29)
                /\ (x = 3) <=> (q \in 30..49)
                /\ (x = 4) <=> (q >= 50)

\* a day with exactly 10 questions has intensity 2
C8_Witness ==
    /\ Heatmapped
    /\ \E i \in 1..Len(ret) : ret[i].questions_answered = 10 /\ ret[i].intensity = 2

\* the record carries a date text that parses to the given day
DatedOn(record, day) ==
    LET raw == Get(record, "date", Str(<<>>))
    IN  ValidDateText(raw) /\ ToOrdinal(raw.v[3], raw.v[2], raw.v[1]) = day

\* the sum of a field over the records of a day
DaySum(records, field, day) ==
    SumSeq([i \in 1..Len(records) |->
                IF DatedOn(records[i], day) THEN Get(records[i], field, 0) ELSE 0])

\* the number of the records of a day
DayCount(records, day) == Cardinality({i \in 1..Len(records) : DatedOn(records[i], day)})

\* the number of the records whose date parses to a day of the window
WindowCount(records) ==
    Cardinality({i \in 1..Len(records) :
                    \E day \in (call.today - call.days)..call.today : DatedOn(records[i], day)})

\* C26: for each day of the window, questions_answered and study_time are the
\* sums of total_questions and duration_minutes over the sessions of that day,
\* errors_logged is the number of the errors of that day and exams_taken the
\* number of the exams of that day; records outside the window or without a
\* date that parses change nothing, so the totals over the days are the
\* totals over the records of the window.
C26_DailySums ==
    Heatmapped =>
        /\ \A i \in 1..Len(ret) :
            LET day == call.today - call.days + (i - 1)
            IN  /\ ret[i].questions_answered = DaySum(call.sessions, "total_questions", day)
                /\ ret[i].study_time = DaySum(call.sessions, "duration_minutes", day)
                /\ ret[i].errors_logged = DayCount(call.errors, day)
                /\ ret[i].exams_taken = DayCount(call.mock_exams, day)
        /\ SumSeq([i \in 1..Len(ret) |-> ret[i].errors_logged]) = WindowCount(call.errors)
        /\ SumSeq([i \in 1..Len(ret) |-> ret[i].exams_taken]) = WindowCount(call.mock_exams)

\* two sessions of one day of the window were added up, and an error of a day
\* before the window was counted nowhere
C26_Witness ==
    /\ Heatmapped
    /\ Len(call.sessions) = 2
    /\ call.sessions[1].date = call.sessions[2].date
    /\ call.sessions[1].total_questions = 9
    /\ call.sessions[2].total_questions = 10
    /\ \E i \in 1..Len(ret) : ret[i].questions_answered = 19 /\ ret[i].study_time = 75
    /\ call.errors = <<[date |-> DateText(24, 12, 2023)]>>
    /\ \A i \in 1..Len(ret) : ret[i].errors_logged = 0

\* a session whose date does not parse was counted nowhere
C26_WitnessUnparsed ==
    /\ Heatmapped
    /\ Len(call.sessions) = 1
    /\ ~ValidDateText(call.sessions[1].date)
    /\ call.sessions[1].total_questions > 0
    /\ \A i \in 1..Len(ret) : ret[i].questions_answered = 0

----------------------------------------------------------------------------
(* Classification rules: claims C5, C6, C7 *)

Classified == call.fn = "PaceZone.classify"

C6_NonPositiveBenchmarkIsTooSlow ==
    (Classified /\ call.benchmark <= 0) => ret = "Too Slow"

\* C6 as amended: the classification is total, and against a benchmark <= 0 it
\* is Rushing exactly when pace < benchmark * 0.5, Optimal only for pace = 0
\* with benchmark = 0, and Too Slow otherwise, hence for every pace > 0.
C6_NonPositiveBenchmark ==
    (Classified /\ call.benchmark <= 0) =>
        /\ ret \in {"Rushing", "Optimal", "Too Slow"}
        /\ (ret = "Rushing") <=> (2 * call.pace < call.benchmark)
        /\ (ret = "Optimal") <=> (call.pace = 0 /\ call.benchmark = 0)
        /\ (call.pace > 0) => ret = "Too Slow"

\* a positive pace was classified against a negative benchmark
C6_Witness ==
    /\ Classified
    /\ call.benchmark < 0
    /\ call.pace > 0
    /\ ret = "Too Slow"

Analyzed == call.fn = "analyze_session_performance"

\* C7: the combined performance zone of every analyzed session follows the
\* table: (Rushing, accuracy < 60) -> Rushing & Struggling; (Rushing, >= 80) ->
\* Rushing & Accurate (Risky); (Optimal, >= 80) -> Mastery Zone; (Too Slow,
\* >= 80) -> Slow but Accurate; every other combination -> Needs Improvement.
C7_PerformanceZoneTable ==
    Analyzed =>
        \A i \in 1..Len(ret) :
            LET acc == Get(call.sessions[i], "accuracy_percentage", 0)
                pz == ret[i].pace_zone
                zone == ret[i].performance_zone
            IN  /\ pz \in {"Rushing", "Optimal", "Too Slow"}
                /\ (pz = "Rushing" /\ acc < 60) => zone = "Rushing & Struggling"
                /\ (pz = "Rushing" /\ acc >= 80) => zone = "Rushing & Accurate (Risky)"
                /\ (pz = "Optimal" /\ acc >= 80) => zone = "Mastery Zone"
                /\ (pz = "Too Slow" /\ acc >= 80) => zone = "Slow but Accurate"
                /\ (pz = "Optimal" /\ acc < 80) => zone = "Needs Improvement"
                /\ (pz = "Too Slow" /\ acc < 80) => zone = "Needs Improvement"
                /\ (pz = "Rushing" /\ acc >= 60 /\ acc < 80) => zone = "Needs Improvement"

\* a Rushing session with a Developing accuracy fell through to the generic bucket
C7_Witness ==
    /\ Analyzed
    /\ \E i \in 1..Len(ret) :
        /\ ret[i].pace_zone = "Rushing"
        /\ ret[i].accuracy_zone = "Developing"
        /\ ret[i].performance_zone = "Needs Improvement"

\* C25: the accuracy zone of an analyzed session is Mastery exactly when its
\* accuracy is at least 80, Developing exactly when it is at least 60 and
\* below 80, and Struggling exactly when it is below 60; it is one of the three.
C25_AccuracyZones ==
    Analyzed =>
        \A i \in 1..Len(ret) :
            LET acc == Get(call.sessions[i], "accuracy_percentage", 0)
                zone == ret[i].accuracy_zone
            IN  /\ zone \in {"Mastery", "Developing", "Struggling"}
                /\ zone = "Mastery" <=> acc >= 80
                /\ zone = "Developing" <=> (acc >= 60 /\ acc < 80)
                /\ zone = "Struggling" <=> acc < 60

\* a session at exactly 60 percent was classified Developing
C25_Witness ==
    /\ Analyzed
    /\ \E i \in 1..Len(ret) :
        /\ Get(call.sessions[i], "accuracy_percentage", 0) = 60
        /\ ret[i].accuracy_zone = "Developing"

\* a session at exactly 80 percent was classified Mastery
C25_WitnessMastery ==
    /\ Analyzed
    /\ \E i \in 1..Len(ret) :
        /\ Get(call.sessions[i], "accuracy_percentage", 0) = 80
        /\ ret[i].accuracy_zone = "Mastery"

----------------------------------------------------------------------------
(* Section scores: extract_section_scores.  A mapping is Dict(v): for a    *)
(* breakdown v is the sequence of its items [key, value] in insertion      *)
(* order (the keys are distinct), for a section v is the record of its     *)
(* fields.  The percentage of a result is in tenths of a percent.          *)

Dict(v) == [t |-> "dict", v |-> v]

\* isinstance(x, dict)
IsDict(x) == x.t = "dict"

\* exam.get("breakdown_json") or {}
BreakdownOf(exam) ==
    LET raw == Get(exam, "breakdown_json", None)
    IN  IF IsDict(raw) THEN raw
        ELSE IF Truthy(raw) THEN raw
        ELSE Dict(<<>>)

\* the test with the label not asked for: every mapping counts
IsSection_any_mapping(sec_data) == IsDict(sec_data)

\* the test of the inner loop negated: a mapping that carries a label
IsSection(sec_data) == IsDict(sec_data) /\ "label" \in DOMAIN sec_data.v

\* the items of one exam that give a result, each with its exam
ExamRows(exam) ==
    LET breakdown == BreakdownOf(exam)
    IN  IF ~IsDict(breakdown) THEN <<>>
        ELSE LET kept == SelectSeq(breakdown.v, LAMBDA item : IsSection(item.value))
             IN  [i \in 1..Len(kept) |-> [item |-> kept[i], exam |-> exam]]

\* the rows of the exams in turn
RECURSIVE SectionRows(_)
SectionRows(filtered) ==
    IF filtered = <<>> THEN <<>>
    ELSE SectionRows(SubSeq(filtered, 1, Len(filtered) - 1)) \o ExamRows(filtered[Len(filtered)])

\* the percentage with full marks substituted for a maximum that is not positive
SectionPercentages_full_marks(sec_data) ==
    LET score == Get(sec_data.v, "score", 0)
        max_val == Get(sec_data.v, "max", 1)
    IN  IF max_val > 0 THEN RoundChoices(score * 100, max_val, 10) ELSE {1000}

\* round(pct, 1) where pct = score / max_val * 100 if max_val > 0 else 0
SectionPercentages(sec_data) ==
    LET score == Get(sec_data.v, "score", 0)
        max_val == Get(sec_data.v, "max", 1)
    IN  IF max_val > 0 THEN RoundChoices(score * 100, max_val, 10) ELSE {0}

\* the result appended for one row
SectionResult(row, percentage) ==
    [section |-> Get(row.item.value.v, "label", row.item.key),
     score |-> Get(row.item.value.v, "score", 0),
     max |-> Get(row.item.value.v, "max", 1),
     percentage |-> percentage,
     exam_name |-> Get(row.exam, "exam_name", Str(<<"Untitled">>)),
     date |-> Get(row.exam, "date", Str(<<>>))]

\* the result lists the rows can give
RECURSIVE RowResults(_)
RowResults(rows) ==
    IF rows = <<>> THEN {<<>>}
    ELSE {Append(results, SectionResult(rows[Len(rows)], percentage)) :
             results \in RowResults(SubSeq(rows, 1, Len(rows) - 1)),
             percentage \in SectionPercentages(rows[Len(rows)].item.value)}

\* the values extract_section_scores can return
extract_section_scores(mock_exams, exam_type) ==
    RowResults(SectionRows(SelectSeq(mock_exams, LAMBDA e : Get(e, "exam_type", None) = exam_type)))

MaxSectionExams == 2

\* sections: 30 of 45, 0 of 0 (a zero maximum), and one with a label only
SectionMath == Dict([label |-> Str(<<"Math">>), score |-> 30, max |-> 45])

SectionLanguages == Dict([label |-> Str(<<"Languages">>), score |-> 0, max |-> 0])

SectionEssay == Dict([label |-> Str(<<"Essay">>)])

\* breakdown values: mappings with sections, scalar extras and a mapping
\* without a label in several orders, an empty mapping, None, and a text
BreakdownValues ==
    {Dict(<< [key |-> Str(<<"math">>), value |-> SectionMath], [key |-> Str(<<"tri_score">>), value |-> IntV(650)] >>),
     Dict(<< [key |-> Str(<<"scaled_score">>), value |-> IntV(700)], [key |-> Str(<<"languages">>), value |-> SectionLanguages],
             [key |-> Str(<<"math">>), value |-> SectionMath] >>),
     Dict(<< [key |-> Str(<<"meta">>), value |-> Dict([version |-> 2])], [key |-> Str(<<"essay">>), value |-> SectionEssay] >>),
     Dict(<< [key |-> Str(<<"note">>), value |-> Str(<<"retake">>)], [key |-> Str(<<"rank">>), value |-> None] >>),
     Dict(<<>>),
     None,
     Str(<<"{}">>)}

SectionExamTypes == {Str(<<"ENEM">>), Str(<<"SAT">>)}

SectionExams ==
    {[exam_type |-> t, date |-> DateText(1, 1, 2024), breakdown_json |-> b] :
        t \in SectionExamTypes, b \in BreakdownValues}
    \cup {[exam_type |-> t, date |-> DateText(1, 1, 2024)] : t \in SectionExamTypes}
    \cup {[breakdown_json |-> b] : b \in BreakdownValues}

CallExtractSections ==
    /\ Idle
    /\ \E mock_exams \in SeqsUpTo(SectionExams, MaxSectionExams), exam_type \in SectionExamTypes :
         /\ call' = [fn |-> "extract_section_scores", mock_exams |-> mock_exams, exam_type |-> exam_type]
         /\ ret' \in extract_section_scores(mock_exams, exam_type)
         /\ UNCHANGED <<now, study_sessions>>

NextSection == CallExtractSections \/ Return

SpecSection == Init /\ [][NextSection]_vars

Extracted == call.fn = "extract_section_scores"

\* the places in the breakdown of the exam of structured section entries:
\* mappings that carry a label; none when the exam is of another type or its
\* breakdown is missing or no mapping
SectionPlaces(exam, exam_type) ==
    IF /\ "exam_type" \in DOMAIN exam
       /\ exam.exam_type = exam_type
       /\ "breakdown_json" \in DOMAIN exam
       /\ exam.breakdown_json.t = "dict"
    THEN {i \in 1..Len(exam.breakdown_json.v) :
             /\ exam.breakdown_json.v[i].value.t = "dict"
             /\ "label" \in DOMAIN exam.breakdown_json.v[i].value.v}
    ELSE {}

\* the section entries of the call, as pairs <<exam, place>>
SectionEntries ==
    UNION {{<<x, i>> : i \in SectionPlaces(call.mock_exams[x], call.exam_type)} :
              x \in 1..Len(call.mock_exams)}

\* C17: there is exactly one result for each structured section entry of an
\* exam of the given type, in the order of the exams and of their entries;
\* scalar extras, mappings without a label, exams of other types and exams
\* whose breakdown is missing or no mapping give no result.
C17_OneResultPerSection ==
    Extracted =>
        /\ Len(ret) = Cardinality(SectionEntries)
        /\ \E place \in [1..Len(ret) -> SectionEntries] :
            /\ \A i, j \in 1..Len(ret) :
                 i < j => \/ place[i][1] < place[j][1]
                          \/ place[i][1] = place[j][1] /\ place[i][2] < place[j][2]
            /\ \A i \in 1..Len(ret) :
                 ret[i].section
                     = call.mock_exams[place[i][1]].breakdown_json.v[place[i][2]].value.v.label

\* an exam of the given type with two sections after a scalar extra, and an
\* exam of the other type with a section: two results, from the first exam
C17_Witness ==
    /\ Extracted
    /\ Len(call.mock_exams) = 2
    /\ Cardinality(SectionPlaces(call.mock_exams[1], call.exam_type)) = 2
    /\ 1 \notin SectionPlaces(call.mock_exams[1], call.exam_type)
    /\ "exam_type" \in DOMAIN call.mock_exams[2]
    /\ SectionPlaces(call.mock_exams[2], call.mock_exams[2].exam_type) # {}
    /\ call.mock_exams[2].exam_type # call.exam_type
    /\ Len(ret) = 2
    /\ ret[1].section = Str(<<"Languages">>)
    /\ ret[2].section = Str(<<"Math">>)

----------------------------------------------------------------------------
(* Loading study sessions: load_study_sessions of db_service.py, from the  *)
(* rows the query returns.  The numbers of a row are IntV values or None;   *)
(* after float(...) they are plain numbers.  The computed metrics are      *)
(* floats that are not rounded: they are kept as fractions num / den.      *)

Fraction(num, den) == [num |-> num, den |-> den]

\* 0.0
ZERO == Fraction(0, 1)

\* a datetime.date
DateObj(ordinal) == [t |-> "date", v |-> ordinal]

\* datetime.strptime(text, "%Y-%m-%d") succeeds; the year is the first field,
\* written with four digits
ValidIsoText(x) ==
    /\ x.t = "str"
    /\ Len(x.v) = 3
    /\ x.v[1] \in 1000..9999
    /\ x.v[2] \in 1..12
    /\ x.v[3] \in 1..DaysInMonth(x.v[1], x.v[2])

\* float(x) succeeds: the numbers of a row are IntV values, or None for a
\* null column
Convertible(x) == x.t = "int"

\* the three float(...) conversions of a row succeed
ConvertibleRow(item) ==
    /\ Convertible(Get(item, "total_questions", IntV(0)))
    /\ Convertible(Get(item, "correct_count", IntV(0)))
    /\ Convertible(Get(item, "duration_minutes", IntV(0)))

\* the date fields of clean_item: date_obj, and date in the display format
\* when the text parses as an ISO date
WithDateObj(clean_item, today) ==
    LET raw == Get(clean_item, "date", None)
    IN  IF Truthy(raw)
        THEN IF IsStr(raw)
             THEN IF ValidIsoText(raw)
                  THEN LET dt == ToOrdinal(raw.v[1], raw.v[2], raw.v[3])
                       IN  With(With(clean_item, "date_obj", DateObj(dt)), "date", FormatDisplay(dt))
                  ELSE With(clean_item, "date_obj", DateObj(today))
             ELSE With(clean_item, "date_obj", raw)
        ELSE With(clean_item, "date_obj", DateObj(today))

\* the loop body: the row with defaults, date fields and computed metrics
ProcessSession(item, today) ==
    LET total_q == Get(item, "total_questions", IntV(0)).v[1]
        correct == Get(item, "correct_count", IntV(0)).v[1]
        duration == Get(item, "duration_minutes", IntV(0)).v[1]
        numbers == With(With(With(item, "total_questions", total_q), "correct_count", correct),
                        "duration_minutes", duration)
        dated == WithDateObj(numbers, today)
    IN  IF total_q > 0
        THEN With(With(dated, "accuracy_percentage", Fraction(correct * 100, total_q)),
                  "pace_per_question", Fraction(duration, total_q))
        ELSE With(With(dated, "accuracy_percentage", ZERO), "pace_per_question", ZERO)

\* connected: the supabase client exists; raw_data: the rows of the response;
\* an exception in the loop is caught and gives the empty list
load_study_sessions(connected, raw_data, today) ==
    IF ~connected THEN <<>>
    ELSE IF \E i \in 1..Len(raw_data) :
                ~ConvertibleRow(raw_data[i]) /\ \A j \in 1..(i - 1) : ConvertibleRow(raw_data[j])
         THEN <<>>
         ELSE [i \in 1..Len(raw_data) |-> ProcessSession(raw_data[i], today)]

MaxLoaded == 2

\* <<total_questions, correct_count>>
LoadedScores == {<<0, 0>>, <<4, 0>>, <<10, 7>>, <<4, 4>>}

\* an ISO date, an ISO text of a day that is not in the calendar, a text in
\* the display format, None
LoadedDates == {Str(<<2024, 1, 1>>), Str(<<2023, 11, 31>>), DateText(1, 1, 2024), None}

LoadedRows ==
    {[total_questions |-> IntV(sc[1]), correct_count |-> IntV(sc[2]), duration_minutes |-> IntV(20),
      date |-> d] : sc \in LoadedScores, d \in LoadedDates}
    \cup {[total_questions |-> IntV(0), correct_count |-> IntV(0), duration_minutes |-> IntV(0)],
          [subject |-> Str(<<"Optics">>)],
          [total_questions |-> None, correct_count |-> IntV(0), duration_minutes |-> IntV(20)]}

CallLoadStudySessions ==
    /\ Idle
    /\ \E connected \in BOOLEAN, raw_data \in SeqsUpTo(LoadedRows, MaxLoaded) :
         /\ call' = [fn |-> "load_study_sessions", connected |-> connected, raw_data |-> raw_data,
                     today |-> now.day]
         /\ ret' = load_study_sessions(connected, raw_data, now.day)
         /\ UNCHANGED <<now, study_sessions>>

\* the operations that divide by a number of questions or by a maximum
NextZero == CallSessionStatistics \/ CallExtractSections \/ CallLoadStudySessions \/ Return \/ Tick

SpecZero == Init /\ [][NextZero]_vars

Loaded == call.fn = "load_study_sessions"

C18_WitnessSection ==
    /\ Extracted
    /\ \E i \in 1..Len(ret) : ret[i].max = 0 /\ ret[i].percentage = 0

\* a loaded session without questions that took time, next to one with
\* questions
C18_WitnessLoaded ==
    /\ Loaded
    /\ \E i, j \in 1..Len(ret) :
        /\ ret[i].total_questions = 0 /\ ret[i].duration_minutes > 0
        /\ ret[i].pace_per_question = ZERO
        /\ ret[j].total_questions > 0 /\ ret[j].pace_per_question # ZERO

----------------------------------------------------------------------------
(* Monthly counts: count_entries_by_month, aggregate_by_month_all and the  *)
(* chart that shows the latter, chart_timeline of plots.py.  A month key   *)
(* "YYYY-MM" is Str(<<year, month>>); a month label "Mon YYYY" is          *)
(* Str(<<abbreviation, year>>).  The result of aggregate_by_month_all is   *)
(* kept with its insertion order, as a sequence of items [key, value].     *)

\* strftime("%b"): the abbreviated month names
MONTH_ABBR == <<"Jan", "Feb", "Mar", "Apr", "May", "Jun", "Jul", "Aug", "Sep", "Oct", "Nov", "Dec">>

\* dt.strftime("%Y-%m")
FormatMonthKey(dt) == LET t == FromOrdinal(dt.day) IN Str(<<t[1], t[2]>>)

\* dt.strftime("%b %Y")
FormatMonthLabel(dt) == LET t == FromOrdinal(dt.day) IN Str(<<MONTH_ABBR[t[2]], t[1]>>)

\* datetime.strptime(label, "%b %Y"): the first day of the month, midnight
ParseMonthLabel(label) ==
    LET month == CHOOSE k \in 1..12 : MONTH_ABBR[k] = label.v[1]
    IN  [day |-> ToOrdinal(label.v[2], month, 1), tod |-> 0]

\* the month keys read off the text without asking whether the day exists
MonthKeys_lenient(data) ==
    LET counted == SelectSeq(data, LAMBDA item :
                       LET raw == Get(item, "date", None)
                       IN  /\ Truthy(raw)
                           /\ IsStr(raw)
                           /\ Len(raw.v) = 3
                           /\ raw.v[1] \in 1..31 /\ raw.v[2] \in 1..12 /\ raw.v[3] \in 1..9999)
    IN  [i \in 1..Len(counted) |-> Str(<<counted[i].date.v[3], counted[i].date.v[2]>>)]

\* the loop of count_entries_by_month: the month keys of the items counted
MonthKeys(data) ==
    LET counted == SelectSeq(data, LAMBDA item :
                       Truthy(Get(item, "date", None)) /\ ValidDateText(Get(item, "date", None)))
    IN  [i \in 1..Len(counted) |-> FormatMonthKey(parse_date_str(counted[i].date))]

count_entries_by_month(data) ==
    IF data = <<>> THEN EmptyDict ELSE Tally(MonthKeys(data))

\* month_counts[month_str] = month_counts.get(month_str, 0) + 1 on the ordered
\* items
BumpItem(items, key) ==
    IF \E i \in 1..Len(items) : items[i].key = key
    THEN [i \in 1..Len(items) |->
             IF items[i].key = key THEN [key |-> key, value |-> items[i].value + 1] ELSE items[i]]
    ELSE Append(items, [key |-> key, value |-> 1])

RECURSIVE aggregate_by_month_all(_)
aggregate_by_month_all(data) ==
    IF data = <<>> THEN <<>>
    ELSE LET month_counts == aggregate_by_month_all(SubSeq(data, 1, Len(data) - 1))
             dt == parse_date_str(Get(data[Len(data)], "date", Str(<<>>)))
         IN  IF dt # None THEN BumpItem(month_counts, FormatMonthLabel(dt)) ELSE month_counts

\* the order of the labels as texts: by abbreviation in alphabetical order,
\* then by year
LabelBefore_text(a, b) ==
    LET alphabetical == <<"Apr", "Aug", "Dec", "Feb", "Jan", "Jul", "Jun", "Mar", "May", "Nov", "Oct", "Sep">>
        Rank(abbr) == CHOOSE k \in 1..12 : alphabetical[k] = abbr
    IN  \/ Rank(a.key.v[1]) < Rank(b.key.v[1])
        \/ a.key.v[1] = b.key.v[1] /\ a.key.v[2] < b.key.v[2]

\* key(a) < key(b) for the sort key datetime.strptime(label, "%b %Y")
LabelBefore(a, b) == DtLess(ParseMonthLabel(a.key), ParseMonthLabel(b.key))

\* sorted(month_data.items(), key=...): insertion after every item that does
\* not sort after the new one (sorted is stable)
RECURSIVE InsertByLabel(_, _)
InsertByLabel(acc, x) ==
    IF acc = <<>> THEN <<x>>
    ELSE IF LabelBefore(x, acc[Len(acc)])
         THEN Append(InsertByLabel(SubSeq(acc, 1, Len(acc) - 1), x), acc[Len(acc)])
         ELSE Append(acc, x)

RECURSIVE SortedByLabel(_)
SortedByLabel(items) ==
    IF items = <<>> THEN <<>>
    ELSE InsertByLabel(SortedByLabel(SubSeq(items, 1, Len(items) - 1)), items[Len(items)])

\* chart_timeline: None without data, else the rows <<Month, Errors>> of the
\* data frame, which the chart shows in their order (sort=None)
chart_timeline(month_data) ==
    IF month_data = <<>> THEN None
    ELSE LET sorted_months == SortedByLabel(month_data)
         IN  [i \in 1..Len(sorted_months) |->
                 [Month |-> sorted_months[i].key, Errors |-> sorted_months[i].value]]

\* the previous month taken as the month of the day 30 days before ref
current_and_last_month_refs_thirty_days(ref) ==
    << <<FromOrdinal(ref)[1], FromOrdinal(ref)[2]>>,
       <<FromOrdinal(ref - DAYS_PER_MONTH)[1], FromOrdinal(ref - DAYS_PER_MONTH)[2]>> >>

\* current_and_last_month_refs: ref is a date (an ordinal)
current_and_last_month_refs(ref) ==
    LET first_this == ref - (FromOrdinal(ref)[3] - 1)
        last_month_last_day == first_this - 1
        first_last == last_month_last_day - (FromOrdinal(last_month_last_day)[3] - 1)
    IN  << <<FromOrdinal(first_this)[1], FromOrdinal(first_this)[2]>>,
           <<FromOrdinal(first_last)[1], FromOrdinal(first_last)[2]>> >>

MaxMonthly == 3

\* dates in December 2024, January and April 2025, a day that is not in the
\* calendar, an ISO text, an empty text, None
MonthlyDates ==
    {DateText(15, 12, 2024), DateText(31, 12, 2024), DateText(1, 1, 2025), DateText(10, 4, 2025),
     DateText(31, 4, 2025), Str(<<2025, 1, 1>>), Str(<<>>), None}

MonthlyRecords == {[date |-> value] : value \in MonthlyDates} \cup {EmptyDict}

\* the reference dates: every day from 1 December 2023 to 31 March 2024
RefDays == ToOrdinal(2023, 12, 1)..ToOrdinal(2024, 3, 31)

CallCountByMonth ==
    /\ Idle
    /\ \E data \in SeqsUpTo(MonthlyRecords, MaxMonthly) :
         /\ call' = [fn |-> "count_entries_by_month", data |-> data]
         /\ ret' = count_entries_by_month(data)
         /\ UNCHANGED <<now, study_sessions>>

CallByMonthAll ==
    /\ Idle
    /\ \E data \in SeqsUpTo(MonthlyRecords, MaxMonthly) :
         /\ call' = [fn |-> "aggregate_by_month_all", data |-> data]
         /\ ret' = aggregate_by_month_all(data)
         /\ UNCHANGED <<now, study_sessions>>

\* the dashboard's timeline: chart_timeline(aggregate_by_month_all(data))
CallTimeline ==
    /\ Idle
    /\ \E data \in SeqsUpTo(MonthlyRecords, MaxMonthly) :
         /\ call' = [fn |-> "chart_timeline", data |-> data]
         /\ ret' = chart_timeline(aggregate_by_month_all(data))
         /\ UNCHANGED <<now, study_sessions>>

CallMonthRefs ==
    /\ Idle
    /\ \E ref \in RefDays :
         /\ call' = [fn |-> "current_and_last_month_refs", ref |-> ref]
         /\ ret' = current_and_last_month_refs(ref)
         /\ UNCHANGED <<now, study_sessions>>

NextMonth == CallCountByMonth \/ CallByMonthAll \/ CallTimeline \/ CallMonthRefs \/ Return

SpecMonth == Init /\ [][NextMonth]_vars

\* the records of the call whose date parses into the month of the year
InMonth(year, month) ==
    {i \in 1..Len(call.data) :
        /\ Parseable(call.data[i])
        /\ call.data[i].date.v[3] = year
        /\ call.data[i].date.v[2] = month}

\* the months <<year, month>> in which a record of the call is dated
MonthsPresent ==
    {<<call.data[i].date.v[3], call.data[i].date.v[2]>> :
        i \in {k \in 1..Len(call.data) : Parseable(call.data[k])}}

\* the month <<year, month>> that a label "Mon YYYY" names
MonthNamed(label) == <<label.v[2], CHOOSE k \in 1..12 : MONTH_ABBR[k] = label.v[1]>>

\* C21: count_by_month maps each month key to the number of records whose
\* date parses into that month, and has a key for no other month; records
\* with a missing or unparseable date are counted nowhere, so the counts sum
\* to the number of records with parseable dates; the month-label variant
\* gives the same count for each month.
C21_MonthlyCounts ==
    /\ call.fn = "count_entries_by_month" =>
        /\ {<<k.v[1], k.v[2]>> : k \in DOMAIN ret} = MonthsPresent
        /\ \A k \in DOMAIN ret : ret[k] = Cardinality(InMonth(k.v[1], k.v[2]))
        /\ SumCounts(ret, DOMAIN ret) = Cardinality({i \in 1..Len(call.data) : Parseable(call.data[i])})
    /\ call.fn = "aggregate_by_month_all" =>
        /\ {MonthNamed(ret[i].key) : i \in 1..Len(ret)} = MonthsPresent
        /\ \A i, j \in 1..Len(ret) : ret[i].key = ret[j].key => i = j
        /\ \A i \in 1..Len(ret) :
               ret[i].value = Cardinality(InMonth(MonthNamed(ret[i].key)[1], MonthNamed(ret[i].key)[2]))

\* two records of December 2024 and a record of a day that is not in the
\* calendar were counted by month key
C21_Witness ==
    /\ call.fn = "count_entries_by_month"
    /\ Len(call.data) = 3
    /\ Cardinality(InMonth(2024, 12)) = 2
    /\ \E i \in 1..3 : "date" \in DOMAIN call.data[i] /\ call.data[i].date = DateText(31, 4, 2025)
    /\ DOMAIN ret = {Str(<<2024, 12>>)}
    /\ ret[Str(<<2024, 12>>)] = 2

\* the same by month label
C21_WitnessLabels ==
    /\ call.fn = "aggregate_by_month_all"
    /\ Len(call.data) = 3
    /\ Cardinality(InMonth(2024, 12)) = 2
    /\ \E i \in 1..3 : ~Parseable(call.data[i])
    /\ ret = <<[key |-> Str(<<"Dec", 2024>>), value |-> 2]>>

C23_MonthRefs ==
    call.fn = "current_and_last_month_refs" =>
        \E y \in 2023..2024, mo \in 1..12, d \in 1..31 :
            /\ d <= DaysInMonth(y, mo)
            /\ ToOrdinal(y, mo, d) = call.ref
            /\ ret = IF mo > 1 THEN << <<y, mo>>, <<y, mo - 1>> >>
                     ELSE << <<y, 1>>, <<y - 1, 12>> >>

\* the reference date was 31 January 2024
C23_Witness ==
    /\ call.fn = "current_and_last_month_refs"
    /\ call.ref = ToOrdinal(2024, 1, 31)
    /\ ret = << <<2024, 1>>, <<2023, 12>> >>

\* the reference date was 31 March 2024, after a February of 29 days
C23_WitnessMarch ==
    /\ call.fn = "current_and_last_month_refs"
    /\ call.ref = ToOrdinal(2024, 3, 31)
    /\ ret = << <<2024, 3>>, <<2024, 2>> >>

----------------------------------------------------------------------------
(* Inputs as objects.  The heap is the sequence of the objects that exist, *)
(* an address is an index of it.  A dict is the record of its fields, a    *)
(* list is [items |-> the addresses of its elements], and a dict of lists  *)
(* is the function from its keys to the addresses of each list's elements. *)
(* A call receives the addresses of its arguments and returns              *)
(* [heap |-> the heap at the return, addr |-> the address of the result].  *)

ListObj(items) == [items |-> items]

RECURSIVE Flatten(_)
Flatten(lists) == IF lists = <<>> THEN <<>> ELSE Head(lists) \o Flatten(Tail(lists))

\* the heap of a caller that holds the given lists of records: list j is at
\* address j, the records follow in the order of the lists
Load(lists) ==
    LET k == Len(lists)
        Before(j) == k + Len(Flatten(SubSeq(lists, 1, j - 1)))
    IN  [j \in 1..k |-> ListObj([i \in 1..Len(lists[j]) |-> Before(j) + i])] \o Flatten(lists)

\* the records of a list, in its order
ValueOf(heap, list) == [i \in 1..Len(heap[list].items) |-> heap[heap[list].items[i]]]

\* a new object
New(heap, obj) == [heap |-> Append(heap, obj), addr |-> Len(heap) + 1]

\* a new list of new objects
NewList(heap, objects) ==
    New(heap \o objects, ListObj([i \in 1..Len(objects) |-> Len(heap) + i]))

\* s = session: the name bound to the caller's own dict
dict_alias(heap, a) == [heap |-> heap, addr |-> a]

\* s = session.copy()
dict_copy(heap, a) == New(heap, heap[a])

\* list.append(x)
list_append(heap, list, a) == [heap EXCEPT ![list].items = Append(@, a)]

\* the loop of analyze_session_performance: every s[...] = ... is a store
\* into the object s names
RECURSIVE AnalyzeLoop(_, _, _)
AnalyzeLoop(heap, todo, analyzed) ==
    IF todo = <<>> THEN heap
    ELSE LET s == dict_copy(heap, Head(todo))
             stored == [s.heap EXCEPT ![s.addr] = AnalyzeSession(@)]
         IN  AnalyzeLoop(list_append(stored, analyzed, s.addr), Tail(todo), analyzed)

analyze_session_performance_on(heap, sessions) ==
    LET analyzed == New(heap, ListObj(<<>>))
    IN  [heap |-> AnalyzeLoop(analyzed.heap, heap[sessions].items, analyzed.addr),
         addr |-> analyzed.addr]

\* filter_data_by_range: the argument itself when months is None, else a new
\* list of the kept items (the caller's dicts, not copies)
filter_data_by_range_on(heap, data, months, clock) ==
    IF heap[data].items = <<>> THEN New(heap, ListObj(<<>>))
    ELSE IF months = None THEN [heap |-> heap, addr |-> data]
    ELSE New(heap, ListObj(SelectSeq(heap[data].items,
                                     LAMBDA a : InRange(heap[a], Cutoff(months, clock)))))

\* sorted(mock_exams, key=...): the addresses in the order of the new list
SortedRefs(heap, items) ==
    LET tagged == [i \in 1..Len(items) |-> With(heap[items[i]], "ref", items[i])]
        sorted == SortedByDate(tagged, FALSE)
    IN  [i \in 1..Len(sorted) |-> sorted[i].ref]

\* get_mock_exam_trajectory: sorted_exams is a new list, every entry of the
\* trajectory a new dict, and the improvement is stored into those entries
get_mock_exam_trajectory_on(heap, mock_exams) ==
    IF heap[mock_exams].items = <<>> THEN New(heap, ListObj(<<>>))
    ELSE LET sorted_exams == New(heap, ListObj(SortedRefs(heap, heap[mock_exams].items)))
             trajectory == Attempts(ValueOf(sorted_exams.heap, sorted_exams.addr)).trajectory
         IN  NewList(sorted_exams.heap, Improvements(trajectory))

\* get_mock_exam_error_summary: grouped is a new dict of new lists that hold
\* the caller's error dicts
get_mock_exam_error_summary_on(heap, errors, mock_exam_id, exam_date) ==
    LET SubjectAt(a) == Get(heap[a], "subject", Str(<<"Unknown">>))
        matched == SelectSeq(heap[errors].items,
                             LAMBDA a : \/ LinkedTo(heap[a], mock_exam_id)
                                        \/ SameDayUnlinked(heap[a], exam_date))
        subjects == {SubjectAt(matched[i]) : i \in 1..Len(matched)}
    IN  New(heap, [subject \in subjects |-> SelectSeq(matched, LAMBDA a : SubjectAt(a) = subject)])

\* get_activity_heatmap_data: the entries are the new dicts of activity_map
get_activity_heatmap_data_on(heap, sessions, errors, mock_exams, days, today) ==
    NewList(heap, get_activity_heatmap_data(ValueOf(heap, sessions), ValueOf(heap, errors),
                                            ValueOf(heap, mock_exams), days, today))

MaxFramed == 2

\* sessions with and without an exam type, one of them carrying a pace_zone
\* of an earlier analysis
FrameSessions ==
    {[pace_per_question |-> p, accuracy_percentage |-> a, exam_type |-> Str(<<"ENEM">>)] :
        p \in {62, 150}, a \in {59, 80}}
    \cup {[exam_type |-> Str(<<"SAT">>)],
          [pace_per_question |-> 301, accuracy_percentage |-> 80, pace_zone |-> "Optimal"]}

CallAnalyzeOn ==
    /\ Idle
    /\ \E sessions \in SeqsUpTo(FrameSessions, MaxFramed) :
         /\ call' = [fn |-> "analyze_session_performance", heap |-> Load(<<sessions>>), sessions |-> 1]
         /\ ret' = analyze_session_performance_on(Load(<<sessions>>), 1)
         /\ UNCHANGED <<now, study_sessions>>

CallFilterOn ==
    /\ Idle
    /\ \E data \in SeqsUpTo(DatedRecords, MaxFramed), months \in MonthsValues :
         /\ call' = [fn |-> "filter_data_by_range", heap |-> Load(<<data>>), data |-> 1,
                     months |-> months, at |-> now]
         /\ ret' = filter_data_by_range_on(Load(<<data>>), 1, months, now)
         /\ UNCHANGED <<now, study_sessions>>

CallTrajectoryOn ==
    /\ Idle
    /\ \E mock_exams \in SeqsUpTo(TrajectoryExams, MaxFramed) :
         /\ call' = [fn |-> "get_mock_exam_trajectory", heap |-> Load(<<mock_exams>>), mock_exams |-> 1]
         /\ ret' = get_mock_exam_trajectory_on(Load(<<mock_exams>>), 1)
         /\ UNCHANGED <<now, study_sessions>>

CallErrorSummaryOn ==
    /\ Idle
    /\ \E errors \in SeqsUpTo(LinkedErrors, MaxFramed), mock_exam_id \in ExamIds,
          exam_date \in ExamDates \cup {None} :
         /\ call' = [fn |-> "get_mock_exam_error_summary", heap |-> Load(<<errors>>), errors |-> 1,
                     mock_exam_id |-> mock_exam_id, exam_date |-> exam_date]
         /\ ret' = get_mock_exam_error_summary_on(Load(<<errors>>), 1, mock_exam_id, exam_date)
         /\ UNCHANGED <<now, study_sessions>>

CallHeatmapOn ==
    /\ Idle
    /\ \E sessions \in HeatSessionPairs,
          errors \in SeqsUpTo(HeatErrors, MaxHeatEvents),
          mock_exams \in SeqsUpTo(HeatExams, MaxHeatEvents),
          days \in 0..MaxDays :
         /\ call' = [fn |-> "get_activity_heatmap_data", heap |-> Load(<<sessions, errors, mock_exams>>),
                     sessions |-> 1, errors |-> 2, mock_exams |-> 3, days |-> days, today |-> now.day]
         /\ ret' = get_activity_heatmap_data_on(Load(<<sessions, errors, mock_exams>>), 1, 2, 3,
                                                days, now.day)
         /\ UNCHANGED <<now, study_sessions>>

NextFrame ==
    \/ CallAnalyzeOn
    \/ CallFilterOn
    \/ CallTrajectoryOn
    \/ CallErrorSummaryOn
    \/ CallHeatmapOn
    \/ Return
    \/ Tick

SpecFrame == Init /\ [][NextFrame]_vars

\* C27: when analyze_session_performance, filter_data_by_range,
\* get_mock_exam_trajectory, get_mock_exam_error_summary or
\* get_activity_heatmap_data returns, every object the caller passed is as it
\* was at the call: the input lists hold the same records in the same order
\* and every input record has the same fields and values.
C27_InputsUnchanged ==
    ~Idle =>
        /\ Len(ret.heap) >= Len(call.heap)
        /\ \A a \in 1..Len(call.heap) : ret.heap[a] = call.heap[a]

\* the values at the returned addresses are the results of the functions
C27_ResultsAgree ==
    /\ call.fn = "analyze_session_performance" =>
           ValueOf(ret.heap, ret.addr) = analyze_session_performance(ValueOf(call.heap, 1))
    /\ call.fn = "filter_data_by_range" =>
           ValueOf(ret.heap, ret.addr) = filter_data_by_range(ValueOf(call.heap, 1), call.months, call.at)
    /\ call.fn = "get_mock_exam_trajectory" =>
           ValueOf(ret.heap, ret.addr) = get_mock_exam_trajectory(ValueOf(call.heap, 1))
    /\ call.fn = "get_mock_exam_error_summary" =>
           [subject \in DOMAIN ret.heap[ret.addr] |->
               [i \in 1..Len(ret.heap[ret.addr][subject]) |-> ret.heap[ret.heap[ret.addr][subject][i]]]]
           = get_mock_exam_error_summary(ValueOf(call.heap, 1), call.mock_exam_id, call.exam_date)
    /\ call.fn = "get_activity_heatmap_data" =>
           ValueOf(ret.heap, ret.addr) =
               get_activity_heatmap_data(ValueOf(call.heap, 1), ValueOf(call.heap, 2),
                                         ValueOf(call.heap, 3), call.days, call.today)

\* two sessions were analyzed: the results carry the zones, the first input
\* has gained no field and the second keeps the pace_zone it came with
C27_Witness ==
    /\ call.fn = "analyze_session_performance"
    /\ Len(call.heap[1].items) = 2
    /\ ret.heap[ret.heap[ret.addr].items[1]].pace_zone = "Rushing"
    /\ "pace_zone" \notin DOMAIN ret.heap[2]
    /\ ret.heap[ret.heap[ret.addr].items[2]].pace_zone = "Too Slow"
    /\ ret.heap[3].pace_zone = "Optimal"

\* two exams given newest first came back oldest first in the trajectory,
\* and the input list still has them newest first
C27_WitnessSorted ==
    /\ call.fn = "get_mock_exam_trajectory"
    /\ Len(call.heap[1].items) = 2
    /\ HasDate(call.heap[2]) /\ HasDate(call.heap[3])
    /\ ValueOf(ret.heap, ret.addr)[1].date = call.heap[3].date
    /\ ValueOf(ret.heap, ret.addr)[2].date = call.heap[2].date
    /\ call.heap[2].date # call.heap[3].date
    /\ ret.heap[1].items = <<2, 3>>

----------------------------------------------------------------------------
(* Monthly statistics: aggregate_monthly_stats.  today is the value of     *)
(* date.today() that the function reads; delta is a float that is not      *)
(* rounded, kept as the fraction num / den.                                *)

\* counts built by counts[key] = counts.get(key, 0) + 1, in insertion order
RECURSIVE CountItems(_)
CountItems(keys) ==
    IF keys = <<>> THEN <<>>
    ELSE BumpItem(CountItems(SubSeq(keys, 1, Len(keys) - 1)), keys[Len(keys)])

\* max(counts.items(), key=lambda x: x[1])[0] if counts else "—": the first
\* key of the highest count
TopKey(items) ==
    IF items = <<>> THEN SENTINEL
    ELSE LET top == CHOOSE i \in 1..Len(items) :
                        /\ \A j \in 1..Len(items) : items[j].value <= items[i].value
                        /\ \A j \in 1..(i - 1) : items[j].value < items[i].value
         IN  items[top].key

\* month_key(dt) == (year, month) for a row whose date parses
RowInMonth(row, year_month) ==
    LET raw == Get(row, "date", Str(<<>>))
    IN  ValidDateText(raw) /\ <<raw.v[3], raw.v[2]>> = year_month

aggregate_monthly_stats(data, today) ==
    LET refs == current_and_last_month_refs(today)
        current_errors == SelectSeq(data, LAMBDA row : RowInMonth(row, refs[1]))
        last_errors == SelectSeq(data, LAMBDA row : RowInMonth(row, refs[2]))
        current_total == Len(current_errors)
        last_total == Len(last_errors)
        delta == IF last_total = 0
                 THEN (IF current_total > 0 THEN Fraction(100, 1) ELSE ZERO)
                 ELSE Fraction((current_total - last_total) * 100, last_total)
        subjects == [i \in 1..current_total |->
                        OrElse(Get(current_errors[i], "subject", Str(<<"Unknown">>)), Str(<<"Unknown">>))]
        types == [i \in 1..current_total |->
                        OrElse(Get(current_errors[i], "type", Str(<<"Other">>)), Str(<<"Other">>))]
    IN  [current_total |-> current_total,
         delta |-> delta,
         top_subject |-> TopKey(CountItems(subjects)),
         top_type |-> TopKey(CountItems(types))]

MaxStats == 2

\* errors of November and December 2023 and of January 2024, and one
\* without a date
StatsRecords ==
    {[date |-> d, subject |-> s, type |-> Str(<<"Concept">>)] :
        d \in {DateText(30, 11, 2023), DateText(31, 12, 2023), DateText(1, 1, 2024)},
        s \in {Str(<<"Algebra">>), Str(<<"Optics">>)}}
    \cup {[date |-> DateText(31, 12, 2023), subject |-> Str(<<>>)], [subject |-> Str(<<"Algebra">>)]}

CallMonthlyStats ==
    /\ Idle
    /\ \E data \in SeqsUpTo(StatsRecords, MaxStats) :
         /\ call' = [fn |-> "aggregate_monthly_stats", data |-> data, today |-> now.day]
         /\ ret' = aggregate_monthly_stats(data, now.day)
         /\ UNCHANGED <<now, study_sessions>>

----------------------------------------------------------------------------
(* The functions that read the clock, and one that does not *)

NextClock ==
    \/ CallFilter
    \/ CallHeatmap
    \/ CallMonthlyStats
    \/ CallCountByMonth
    \/ Return
    \/ Tick

SpecClock == Init /\ [][NextClock]_vars

Instants == {ClockValues[i] : i \in 1..Len(ClockValues)}

\* what the call of this state returns when the clock reads the given instant
ResultAt(clock) ==
    IF call.fn = "filter_data_by_range"
    THEN filter_data_by_range(call.data, call.months, clock)
    ELSE IF call.fn = "get_activity_heatmap_data"
    THEN get_activity_heatmap_data(call.sessions, call.errors, call.mock_exams, call.days, clock.day)
    ELSE IF call.fn = "aggregate_monthly_stats"
    THEN aggregate_monthly_stats(call.data, clock.day)
    ELSE count_entries_by_month(call.data)

\* the day on which the call of this state was made
CalledOn == IF "at" \in DOMAIN call THEN call.at.day ELSE call.today

\* C28 as stated: the result of a function is determined by its arguments
\* alone: the same arguments give the same result at every time.
C28_ResultFromArgumentsAlone ==
    ~Idle => \A clock \in Instants : ret = ResultAt(clock)

\* C28 as amended: the result is determined by the arguments and the reading
\* of the clock.  count_entries_by_month, and filter_data_by_range for months
\* = null or no data, give the same result at every time;
\* filter_data_by_range with months = 0 gives the same result at every time
\* of one calendar month; get_activity_heatmap_data and
\* aggregate_monthly_stats give the same result at every time of one day.
C28_ResultFromArgumentsAndClock ==
    ~Idle =>
        \A clock \in Instants :
            /\ call.fn = "count_entries_by_month" => ret = ResultAt(clock)
            /\ (Filtered /\ (call.months = None \/ call.data = <<>>)) => ret = ResultAt(clock)
            /\ (Filtered /\ call.months = IntV(0) /\ MonthOf(clock.day) = MonthOf(CalledOn)) =>
                   ret = ResultAt(clock)
            /\ (call.fn \in {"get_activity_heatmap_data", "aggregate_monthly_stats"}
                    /\ clock.day = CalledOn) => ret = ResultAt(clock)
            /\ (Filtered /\ clock = call.at) => ret = ResultAt(clock)

\* the filter for the current month, called at midnight of the first of
\* January, kept a record of that day, as it does later that day, and not a
\* record of the day before, which it keeps when called on that day
C28_Witness ==
    /\ Filtered
    /\ call.months = IntV(0)
    /\ call.at = [day |-> NEW_YEAR, tod |-> 0]
    /\ call.data = <<[date |-> DateText(31, 12, 2023)], [date |-> DateText(1, 1, 2024)]>>
    /\ ret = <<[date |-> DateText(1, 1, 2024)]>>
    /\ ret = ResultAt([day |-> NEW_YEAR, tod |-> 1])
    /\ ret # ResultAt([day |-> NEW_YEAR - 1, tod |-> 1])

\* the monthly statistics of the same errors differ between the last day of
\* December and the first of January
C28_WitnessStatistics ==
    /\ call.fn = "aggregate_monthly_stats"
    /\ call.today = NEW_YEAR - 1
    /\ ret.current_total = 1
    /\ ResultAt([day |-> NEW_YEAR, tod |-> 0]).current_total = 0

----------------------------------------------------------------------------
(* The write path of study sessions: src/src/services/db_service.py.       *)
(* study_sessions is the table: the row of id i is study_sessions[i], the  *)
(* dict of its columns.  total_questions and correct_count are integers,   *)
(* the column duration_minutes is in hundredths of a minute and the        *)
(* argument duration_minutes of create_study_session in thousandths.       *)
(* connected: the supabase client exists; accepted: execute() returns, it  *)
(* does not raise.                                                         *)

\* the three checks of create_study_session; one that fails raises
\* ValidationError
ValidSession(total_questions, correct_count, duration_minutes) ==
    /\ ~(total_questions <= 0)
    /\ ~(correct_count < 0 \/ correct_count > total_questions)
    /\ ~(duration_minutes <= 0)

\* the rows that .insert(payload) may leave in the table
create_study_session(table, total_questions, correct_count, duration_minutes) ==
    {Append(table, [total_questions |-> total_questions,
                    correct_count |-> correct_count,
                    duration_minutes |-> rounded]) :
        rounded \in RoundChoices(duration_minutes, 1000, 100)}

\* a dict with the items of both, those of updates first
Merged(row, updates) ==
    [k \in DOMAIN row \cup DOMAIN updates |-> IF k \in DOMAIN updates THEN updates[k] ELSE row[k]]

\* .update(updates).eq("id", session_id)
update_study_session(table, session_id, updates) ==
    [i \in 1..Len(table) |-> IF i = session_id THEN Merged(table[i], updates) ELSE table[i]]

\* _format_date_iso of a text: the ISO text of a text in the display format,
\* any other text as it is
FormatDateIso(x) == IF ValidDateText(x) THEN Str(<<x.v[3], x.v[2], x.v[1]>>) ELSE x

\* clean_rec of update_sessions: the display names mapped to columns
CleanRecord(rec, today) ==
    [id |-> rec["ID"],
     exam_type |-> Get(rec, "Exam Type", Str(<<"General">>)),
     subject |-> Get(rec, "Subject", Str(<<>>)),
     topics_covered |-> Get(rec, "Topics Covered", Str(<<>>)),
     questions_total |-> Get(rec, "Total Questions", 0),
     questions_correct |-> Get(rec, "Correct", 0),
     questions_wrong |-> Get(rec, "Wrong", 0),
     time_spent_min |-> Get(rec, "Time (min)", 0),
     date |-> IF "Date" \in DOMAIN rec THEN FormatDateIso(rec["Date"]) ELSE Str(FormatIso(today))]

\* .upsert(clean_records) on rows that exist: the columns of each clean record
\* in turn
RECURSIVE update_sessions(_, _, _)
update_sessions(table, updated_records, today) ==
    IF updated_records = <<>> THEN table
    ELSE LET rec == Head(updated_records)
             clean_rec == CleanRecord(rec, today)
             columns == [k \in DOMAIN clean_rec \ {"id"} |-> clean_rec[k]]
             next == IF Get(rec, "ID", 0) = 0 THEN table
                     ELSE update_study_session(table, rec["ID"], columns)
         IN  update_sessions(next, Tail(updated_records), today)

MaxStored == 1

MaxUpdated == 1

WrittenQuestions == {0, 4}

WrittenCorrect == {-1, 4, 5}

\* durations in thousandths of a minute: none, one that rounds to 0.0, twenty
\* minutes
WrittenDurations == {0, 4, 20000}

\* the updates of one column, and one of the three columns
SessionUpdates ==
    {[total_questions |-> 0], [correct_count |-> 5], [duration_minutes |-> 0],
     [total_questions |-> 4, correct_count |-> 4, duration_minutes |-> 2000]}

\* rows of the history table as edited: with and without an ID
EditedRecords ==
    {("ID" :> id) @@ ("Total Questions" :> 0) @@ ("Correct" :> 5) @@ ("Time (min)" :> 0)
        @@ ("Date" :> DateText(1, 1, 2024)) : id \in 1..MaxStored}
    \cup {("Total Questions" :> 4) @@ ("Correct" :> 4)}

CallCreateStudySession ==
    /\ Idle
    /\ Len(study_sessions) < MaxStored
    /\ \E connected \in BOOLEAN, accepted \in BOOLEAN, total_questions \in WrittenQuestions,
          correct_count \in WrittenCorrect, duration_minutes \in WrittenDurations :
         /\ call' = [fn |-> "create_study_session", connected |-> connected, accepted |-> accepted,
                     total_questions |-> total_questions, correct_count |-> correct_count,
                     duration_minutes |-> duration_minutes]
         /\ IF connected /\ accepted /\ ValidSession(total_questions, correct_count, duration_minutes)
            THEN /\ study_sessions' \in create_study_session(study_sessions, total_questions,
                                                              correct_count, duration_minutes)
                 /\ ret' = Str(<<Len(study_sessions) + 1>>)
            ELSE /\ study_sessions' = study_sessions
                 /\ ret' = None
         /\ UNCHANGED now

CallUpdateStudySession ==
    /\ Idle
    /\ \E connected \in BOOLEAN, accepted \in BOOLEAN, session_id \in 1..MaxStored,
          updates \in SessionUpdates :
         /\ call' = [fn |-> "update_study_session", connected |-> connected, accepted |-> accepted,
                     session_id |-> session_id, updates |-> updates]
         /\ IF connected /\ accepted
            THEN /\ study_sessions' = update_study_session(study_sessions, session_id, updates)
                 /\ ret' = TRUE
            ELSE /\ study_sessions' = study_sessions
                 /\ ret' = FALSE
         /\ UNCHANGED now

CallUpdateSessions ==
    /\ Idle
    /\ \E connected \in BOOLEAN, accepted \in BOOLEAN,
          updated_records \in SeqsUpTo(EditedRecords, MaxUpdated) :
         /\ \A i \in 1..Len(updated_records) :
                Get(updated_records[i], "ID", 0) \in 0..Len(study_sessions)
         /\ call' = [fn |-> "update_sessions", connected |-> connected, accepted |-> accepted,
                     updated_records |-> updated_records, today |-> now.day]
         /\ IF ~connected
            THEN study_sessions' = study_sessions /\ ret' = FALSE
            ELSE IF \A i \in 1..Len(updated_records) : Get(updated_records[i], "ID", 0) = 0
            THEN study_sessions' = study_sessions /\ ret' = TRUE
            ELSE IF accepted
            THEN /\ study_sessions' = update_sessions(study_sessions, updated_records, now.day)
                 /\ ret' = TRUE
            ELSE study_sessions' = study_sessions /\ ret' = FALSE
         /\ UNCHANGED now

NextWrite ==
    \/ CallCreateStudySession
    \/ CallUpdateStudySession
    \/ CallUpdateSessions
    \/ Return
    \/ Tick

SpecWrite == Init /\ [][NextWrite]_vars

\* the row is a session within the bounds of the record
WithinBounds(row) ==
    /\ row.total_questions >= 1
    /\ 0 <= row.correct_count
    /\ row.correct_count <= row.total_questions
    /\ row.duration_minutes > 0

\* C30 as stated: after any sequence of create_study_session, update_sessions
\* and update_study_session every stored session has total_questions >= 1,
\* 0 <= correct_count <= total_questions and duration_minutes > 0.
C30_StoredSessionsValid ==
    \A i \in 1..Len(study_sessions) : WithinBounds(study_sessions[i])

\* what holds: create_study_session with total_questions <= 0, with a
\* correct_count outside 0..total_questions or with duration_minutes <= 0
\* leaves the table as it was and returns None
C30_CreateRejects ==
    (/\ call.fn = "create_study_session"
     /\ ~ValidSession(call.total_questions, call.correct_count, call.duration_minutes)) =>
        ret = None

\* update_study_session stored a session without questions
C30_UpdatedOutOfBounds ==
    /\ call.fn = "update_study_session"
    /\ call.updates = [total_questions |-> 0]
    /\ call.connected /\ call.accepted
    /\ call.session_id <= Len(study_sessions)
    /\ study_sessions[call.session_id].total_questions = 0

\* create_study_session accepted a duration above 0 and stored 0.0
C30_CreatedWithoutDuration ==
    /\ call.fn = "create_study_session"
    /\ call.duration_minutes > 0
    /\ call.connected /\ call.accepted
    /\ ValidSession(call.total_questions, call.correct_count, call.duration_minutes)
    /\ study_sessions[Len(study_sessions)].duration_minutes = 0

====
